---- MODULE Spec2Model ----
(***************************************************************************)
(* Model of the RPi configuration manager (middleware/rpi_config_manager.py)*)
(* : backend detection, the three network readers and writers, the WiFi    *)
(* operations and the MQTT command dispatcher.                             *)
(*                                                                         *)
(* Text is modelled by what the code does with it.  An interface name is a *)
(* sequence of chunks, so that str.startswith is sequence prefix           *)
(* (<<"eth0">> is a prefix of <<"eth0", ".10">>).  An IPv4 address or a    *)
(* netmask is the sequence of its dot-separated integer fields.  A line of *)
(* a configuration file is a record of its keyword, its name argument, its *)
(* value argument and whether it carries leading whitespace.               *)
(***************************************************************************)
EXTENDS Integers, Sequences, FiniteSets, TLC

\* ---------------------------------------------------------------- bounds
\* Longest configuration file drawn in the initial state.
MaxLines == 2
\* Number of inbound messages handled in one behaviour.
MaxMsgs == 1
\* Last wall-clock second (time.time() truncated); the clock starts at 0.
MaxClock == 1

\* ----------------------------------------------------------------- names
Eth0 == <<"eth0">>
Eth0Vlan == <<"eth0", ".10">>
Eth1 == <<"eth1">>
Wlan0 == <<"wlan0">>
NoName == <<>>

\* str.startswith on names: s starts with p.
StartsWith(s, p) == Len(p) <= Len(s) /\ SubSeq(s, 1, Len(p)) = p

\* ------------------------------------------------------------ file lines
\* k: keyword; name: interface argument; arg: string argument (a method, a
\* DNS list, a comment's text); addr: numeric argument (the fields of an
\* address, followed by the prefix length for "ip/cidr"); ind: the raw line
\* carries leading whitespace.
Line(k, name, arg, addr, ind) ==
    [k |-> k, name |-> name, arg |-> arg, addr |-> addr, ind |-> ind]

Blank == Line("blank", NoName, "", <<>>, FALSE)
Comment == Line("comment", NoName, "", <<>>, FALSE)
IndentedComment == Line("comment", NoName, "", <<>>, TRUE)

\* line.strip(): the line without its leading whitespace.
Strip(l) == [l EXCEPT !.ind = FALSE]

\* A file: whether it exists, and its lines.
File(lines) == [exists |-> TRUE, lines |-> lines]
NoFile == [exists |-> FALSE, lines |-> <<>>]

\* ------------------------------------------------------------- detection
Ret(v) == [raised |-> FALSE, ret |-> v]
Raised == [raised |-> TRUE, ret |-> "exception"]

\* subprocess.run(['systemctl', 'is-active', X]) : "active", "inactive", or
\* "raise" when the call itself raises (systemctl missing).
SystemctlOutcomes == {"active", "inactive", "raise"}

\* result.returncode == 0 and result.stdout.strip() == 'active'
IsActive(r) == r = "active"

RECURSIVE NonBlank(_)
NonBlank(lines) ==
    IF lines = <<>> THEN <<>>
    ELSE IF Head(lines).k = "blank" THEN NonBlank(Tail(lines))
    ELSE <<Head(lines)>> \o NonBlank(Tail(lines))

\* line.startswith('#') on the lines of content.strip(): the strip removes
\* the leading whitespace of the first non-blank line only.
HashStart(nb, i) == nb[i].k = "comment" /\ (i = 1 \/ ~nb[i].ind)

\* content and not all(line.startswith('#') for line in
\*                     content.splitlines() if line.strip())
InterfacesProbe(lines) ==
    LET nb == NonBlank(lines) IN
    /\ nb # <<>>
    /\ ~(\A i \in 1..Len(nb) : HashStart(nb, i))

\* The try body of _detect_network_method, p the outcomes of its probes.
DetectBody(p, dhFile, ifFile) ==
    IF p.nm = "raise" THEN Raised
    ELSE IF IsActive(p.nm) THEN Ret("networkmanager")
    ELSE IF dhFile.exists /\ p.dhcpcd = "raise" THEN Raised
    ELSE IF dhFile.exists /\ IsActive(p.dhcpcd) THEN Ret("dhcpcd")
    ELSE IF p.networkd = "raise" THEN Raised
    ELSE IF IsActive(p.networkd) THEN Ret("systemd-networkd")
    ELSE IF ifFile.exists /\ p.ifread = "raise" THEN Raised
    ELSE IF ifFile.exists /\ InterfacesProbe(ifFile.lines) THEN Ret("interfaces")
    ELSE Ret("networkmanager")

\* _detect_network_method: the except branch logs through self.logger, which
\* raises AttributeError while the attribute is not assigned yet.
detect_network_method(p, dhFile, ifFile, hasLogger) ==
    LET r == DetectBody(p, dhFile, ifFile) IN
    IF ~r.raised THEN r
    ELSE IF hasLogger THEN Ret("networkmanager")
    ELSE Raised

ProbeOutcomes ==
    [nm : SystemctlOutcomes, dhcpcd : SystemctlOutcomes,
     networkd : SystemctlOutcomes, ifread : {"ok", "raise"}]

\* ----------------------------------------------------------------- codec
\* An address or netmask string is the sequence of its dot-separated fields;
\* a field that int() rejects is modelled by -1, which the range check
\* rejects as well (both end in the same ValueError).
NoAddr == <<>>

RECURSIVE Pow2(_)
Pow2(n) == IF n <= 0 THEN 1 ELSE 2 * Pow2(n - 1)

\* bin(octet_int).count('1')
RECURSIVE BitCount(_)
BitCount(n) == IF n <= 0 THEN 0 ELSE (n % 2) + BitCount(n \div 2)

RECURSIVE SumBits(_)
SumBits(octets) ==
    IF octets = <<>> THEN 0 ELSE BitCount(Head(octets)) + SumBits(Tail(octets))

\* Fault variant of _netmask_to_cidr: the range check of the bit count is
\* missing.
netmask_to_cidr_any_count(netmask) ==
    IF Len(netmask) # 4 THEN Raised
    ELSE IF \E i \in 1..4 : ~(0 <= netmask[i] /\ netmask[i] <= 255) THEN Raised
    ELSE Ret(SumBits(netmask))

\* _netmask_to_cidr: every failure ends in ValueError("Invalid netmask").
netmask_to_cidr(netmask) ==
    IF Len(netmask) # 4 THEN Raised
    ELSE IF \E i \in 1..4 : ~(0 <= netmask[i] /\ netmask[i] <= 255) THEN Raised
    ELSE IF ~(8 <= SumBits(netmask) /\ SumBits(netmask) <= 30) THEN Raised
    ELSE Ret(SumBits(netmask))

\* Host bits of octet i under a prefix of cidr bits.
HostBits(i, cidr) ==
    IF cidr >= 8 * i THEN 0 ELSE IF cidr <= 8 * (i - 1) THEN 8 ELSE 8 * i - cidr

\* _cidr_to_netmask: (0xffffffff >> (32 - cidr)) << (32 - cidr), octet by
\* octet.  A cidr above 32 gives a negative shift count, which raises and
\* yields the fallback; a negative cidr shifts every bit out.
cidr_to_netmask(cidr) ==
    IF cidr > 32 THEN <<255, 255, 255, 0>>
    ELSE [i \in 1..4 |-> 256 - Pow2(HostBits(i, cidr))]

\* ipaddress.IPv4Address(s) accepts s.
IsIPv4(a) == Len(a) = 4 /\ \A i \in 1..4 : 0 <= a[i] /\ a[i] <= 255

\* gateway_obj in IPv4Network(f"{static_ip}/{cidr}", strict=False): the two
\* addresses agree on the first cidr bits, compared octet by octet.
InNetwork(gw, ip, cidr) ==
    \A i \in 1..4 :
        gw[i] \div Pow2(HostBits(i, cidr)) = ip[i] \div Pow2(HostBits(i, cidr))

\* Fault variant of _validate_network_config: the gateway is not looked at.
validate_without_gateway(static_ip, netmask, gateway) ==
    IsIPv4(static_ip) /\ ~netmask_to_cidr(netmask).raised

\* _validate_network_config: (valid, msg); a falsy gateway is not checked.
validate_network_config(static_ip, netmask, gateway) ==
    IF ~IsIPv4(static_ip) THEN FALSE
    ELSE IF netmask_to_cidr(netmask).raised THEN FALSE
    ELSE IF gateway = NoAddr THEN TRUE
    ELSE IF ~IsIPv4(gateway) THEN FALSE
    ELSE InNetwork(gateway, static_ip, netmask_to_cidr(netmask).ret)

\* --------------------------------------------------------------- readers
\* One interface's entry of a reader's result; "" / <<>> / -1: key absent.
Entry(method, address, netmask, cidr, gateway, dns) ==
    [method |-> method, address |-> address, netmask |-> netmask,
     cidr |-> cidr, gateway |-> gateway, dns |-> dns]

EmptyEntry == Entry("", NoAddr, NoAddr, -1, NoAddr, "")
DhcpEntry == Entry("dhcp", NoAddr, NoAddr, -1, NoAddr, "")
EmptyMap == [n \in {} |-> EmptyEntry]

\* d[key] = value on a dict.
Put(d, key, value) ==
    [n \in DOMAIN d \cup {key} |-> IF n = key THEN value ELSE d[n]]

\* A reader's result: (True, interfaces) or (False, message).
ReadOk(ifs) == [ok |-> TRUE, ifs |-> ifs, msg |-> ""]
ReadFail(msg) == [ok |-> FALSE, ifs |-> EmptyMap, msg |-> msg]

\* The loop of _read_dhcpcd_config over the stripped lines.
RECURSIVE DhcpcdScan(_, _, _)
DhcpcdScan(lines, cur, ifs) ==
    IF lines = <<>> THEN ifs
    ELSE LET l == Head(lines)
             rest == Tail(lines) IN
         IF l.k = "interface"
         THEN DhcpcdScan(rest, l.name,
                         Put(ifs, l.name, [EmptyEntry EXCEPT !.method = "static"]))
         ELSE IF cur # NoName /\ l.k = "static ip_address"
         THEN DhcpcdScan(rest, cur,
                         [ifs EXCEPT ![cur].address = SubSeq(l.addr, 1, 4)])
         ELSE IF cur # NoName /\ l.k = "static routers"
         THEN DhcpcdScan(rest, cur, [ifs EXCEPT ![cur].gateway = l.addr])
         ELSE IF cur # NoName /\ l.k = "static domain_name_servers"
         THEN DhcpcdScan(rest, cur, [ifs EXCEPT ![cur].dns = l.arg])
         ELSE DhcpcdScan(rest, cur, ifs)

\* for iface in ['eth0', 'wlan0']: if iface not in interfaces: ... dhcp
AddCommon(ifs) ==
    LET a == IF Eth0 \in DOMAIN ifs THEN ifs ELSE Put(ifs, Eth0, DhcpEntry) IN
    IF Wlan0 \in DOMAIN a THEN a ELSE Put(a, Wlan0, DhcpEntry)

\* Fault variant of _read_dhcpcd_config: only the interfaces of the file are
\* returned.
read_dhcpcd_without_common(file) ==
    ReadOk(IF file.exists THEN DhcpcdScan(file.lines, NoName, EmptyMap) ELSE EmptyMap)

\* _read_dhcpcd_config
read_dhcpcd_config(file) ==
    ReadOk(AddCommon(IF file.exists THEN DhcpcdScan(file.lines, NoName, EmptyMap)
                     ELSE EmptyMap))

InterfacesKeys == {"address", "netmask", "gateway", "dns-nameservers"}

\* interfaces[current_iface][key] = value
SetKey(e, l) ==
    IF l.k = "address" THEN [e EXCEPT !.address = l.addr]
    ELSE IF l.k = "netmask" THEN [e EXCEPT !.netmask = l.addr]
    ELSE IF l.k = "gateway" THEN [e EXCEPT !.gateway = l.addr]
    ELSE [e EXCEPT !.dns = l.arg]

\* The loop of parse_interfaces_file over the stripped lines.
RECURSIVE InterfacesScan(_, _, _)
InterfacesScan(lines, cur, ifs) ==
    IF lines = <<>> THEN ifs
    ELSE LET l == Head(lines)
             rest == Tail(lines) IN
         IF l.k = "auto"
         THEN InterfacesScan(rest, l.name,
                             IF l.name \in DOMAIN ifs THEN ifs
                             ELSE Put(ifs, l.name, EmptyEntry))
         ELSE IF l.k = "iface"
         THEN LET a == IF l.name \in DOMAIN ifs THEN ifs
                       ELSE Put(ifs, l.name, EmptyEntry) IN
              InterfacesScan(rest, l.name, [a EXCEPT ![l.name].method = l.arg])
         ELSE IF cur # NoName /\ l.k \in InterfacesKeys
         THEN InterfacesScan(rest, cur, [ifs EXCEPT ![cur] = SetKey(@, l)])
         ELSE InterfacesScan(rest, cur, ifs)

parse_interfaces_file(lines) == InterfacesScan(lines, NoName, EmptyMap)

\* _read_interfaces_config; readable: open() does not raise PermissionError.
read_interfaces_config(file, readable) ==
    IF ~file.exists THEN ReadOk(Put(Put(EmptyMap, Eth0, DhcpEntry), Wlan0, DhcpEntry))
    ELSE IF ~readable THEN ReadFail("Permission denied")
    ELSE ReadOk(parse_interfaces_file(file.lines))

\* --------------------------------------------------------------- writers
\* The part of the host an operation reads and changes: the dhcpcd file,
\* the interfaces file, the backup copies of the network files, the
\* NetworkManager profiles and the clock.
Host(dh, ifc, bk, nm, t) == [dh |-> dh, ifc |-> ifc, bk |-> bk, nm |-> nm, now |-> t]

\* An event of an operation's trace: an external command run ("cmd"), a
\* file rewritten in place ("write"), a backup copy taken ("backup", at
\* second ts) or a response published ("pub", on topic name, with fields f).
NoFields == [status |-> "", ts |-> FALSE, devid |-> FALSE, rr |-> FALSE,
             gateway |-> <<>>, err |-> "", networks |-> <<>>]
Ev(t, name, ts, f) == [t |-> t, name |-> name, ts |-> ts, f |-> f]
Cmd(name) == Ev("cmd", name, 0, NoFields)
Wrote(file) == Ev("write", file, 0, NoFields)
BackedUp(file, ts) == Ev("backup", file, ts, NoFields)

\* What an operation did: its (ok, msg) result, the host it leaves, and the
\* trace of its events in program order.
Effect(ok, msg, h, trace) == [ok |-> ok, msg |-> msg, host |-> h, trace |-> trace]

Failure(msg, h) == Effect(FALSE, msg, h, <<>>)

\* A request to a writer.
Request(interface, method, static_ip, netmask, gateway, dns) ==
    [interface |-> interface, method |-> method, static_ip |-> static_ip,
     netmask |-> netmask, gateway |-> gateway, dns |-> dns]

\* shutil.copy2(file, f"{file}.backup.{int(time.time())}"): a copy of the
\* same name is overwritten.  content: the copied file's content.
CopyBackup(bk, file, t, content) ==
    {b \in bk : ~(b.file = file /\ b.ts = t)} \cup
        {[file |-> file, ts |-> t, content |-> content]}

\* The skip_interface loop shared by _set_dhcpcd_static and _set_dhcpcd_dhcp.
RECURSIVE DhcpcdFilter(_, _, _)
DhcpcdFilter(lines, interface, skip) ==
    IF lines = <<>> THEN <<>>
    ELSE LET l == Head(lines)
             rest == Tail(lines) IN
         IF Strip(l).k = "interface" /\ StartsWith(l.name, interface)
         THEN DhcpcdFilter(rest, interface, TRUE)
         ELSE IF Strip(l).k = "interface" /\ skip
         THEN <<l>> \o DhcpcdFilter(rest, interface, FALSE)
         ELSE IF ~skip THEN <<l>> \o DhcpcdFilter(rest, interface, skip)
         ELSE DhcpcdFilter(rest, interface, skip)

\* The lines _set_dhcpcd_static appends; '\n# Static IP for X\n' reads back
\* as a blank line and a comment line.
DhcpcdStanza(r) ==
    <<Blank,
      Line("comment", r.interface, "Static IP for", <<>>, FALSE),
      Line("interface", r.interface, "", <<>>, FALSE),
      Line("static ip_address", NoName, "",
           r.static_ip \o <<netmask_to_cidr(r.netmask).ret>>, FALSE),
      Line("static routers", NoName, "", r.gateway, FALSE)>>
    \o (IF r.dns # "" THEN <<Line("static domain_name_servers", NoName, r.dns, <<>>, FALSE)>>
        ELSE <<>>)

\* Fault variant of the tail of the dhcpcd writers: when the restart fails
\* the previous content is put back.
DhcpcdCommitRollingBack(h, newLines, e, okMsg, failMsg) ==
    IF ~e.writable THEN Failure(failMsg, h)
    ELSE IF e.restart # "ok"
    THEN Effect(FALSE, failMsg, h,
                <<Wrote("dhcpcd"), Cmd("systemctl restart dhcpcd"), Wrote("dhcpcd")>>)
    ELSE Effect(TRUE, okMsg, [h EXCEPT !.dh = File(newLines)],
                <<Wrote("dhcpcd"), Cmd("systemctl restart dhcpcd")>>)

\* The rewrite-and-restart tail of both dhcpcd writers: the file is opened
\* for writing and written in place (no copy is taken), then
\* 'systemctl restart dhcpcd' runs with check=True; any exception is caught.
DhcpcdCommit(h, newLines, e, okMsg, failMsg) ==
    IF ~e.writable THEN Failure(failMsg, h)
    ELSE Effect(e.restart = "ok", IF e.restart = "ok" THEN okMsg ELSE failMsg,
                [h EXCEPT !.dh = File(newLines)],
                <<Wrote("dhcpcd"), Cmd("systemctl restart dhcpcd")>>)

\* Fault variant of _set_dhcpcd_static: the gateway is not validated before
\* the file is rewritten.
set_dhcpcd_static_gateway_unchecked(h, r, e) ==
    IF ~h.dh.exists THEN Failure("dhcpcd.conf not found", h)
    ELSE IF ~validate_without_gateway(r.static_ip, r.netmask, r.gateway)
    THEN Failure("Invalid network config", h)
    ELSE DhcpcdCommit(h, DhcpcdFilter(h.dh.lines, r.interface, FALSE) \o DhcpcdStanza(r),
                      e, "Static IP set successfully using dhcpcd",
                      "Error setting dhcpcd static IP")

\* _set_dhcpcd_static
set_dhcpcd_static(h, r, e) ==
    IF ~h.dh.exists THEN Failure("dhcpcd.conf not found", h)
    ELSE IF ~validate_network_config(r.static_ip, r.netmask, r.gateway)
    THEN Failure("Invalid network config", h)
    ELSE DhcpcdCommit(h, DhcpcdFilter(h.dh.lines, r.interface, FALSE) \o DhcpcdStanza(r),
                      e, "Static IP set successfully using dhcpcd",
                      "Error setting dhcpcd static IP")

\* _set_dhcpcd_dhcp
set_dhcpcd_dhcp(h, r, e) ==
    IF ~h.dh.exists THEN Failure("dhcpcd.conf not found", h)
    ELSE DhcpcdCommit(h, DhcpcdFilter(h.dh.lines, r.interface, FALSE),
                      e, "DHCP set successfully using dhcpcd",
                      "Error setting dhcpcd DHCP")

\* The keywords change_ip_configuration drops inside the target section.
SectionKeys ==
    {"address", "netmask", "gateway", "dns-nameservers", "pre-up", "post-down", "iface"}

\* f"iface {interface} inet {method}\n"
IfaceLine(r) == Line("iface", r.interface, r.method, <<>>, FALSE)

\* The lines change_ip_configuration emits for the target's iface line.
IfaceStanza(r) ==
    <<IfaceLine(r)>>
    \o (IF r.method = "static"
        THEN <<Line("address", NoName, "", r.static_ip, TRUE),
               Line("netmask", NoName, "", r.netmask, TRUE),
               Line("gateway", NoName, "", r.gateway, TRUE)>>
             \o (IF r.dns # "" THEN <<Line("dns-nameservers", NoName, r.dns, <<>>, TRUE)>>
                 ELSE <<>>)
        ELSE <<>>)

\* not all([static_ip, netmask, gateway])
MissingStatic(r) == r.static_ip = NoAddr \/ r.netmask = NoAddr \/ r.gateway = NoAddr

\* The for loop of change_ip_configuration; inSection is
\* in_target_iface_section, out is new_lines.  missing: the loop returned
\* "Missing static IP parameters".
RECURSIVE IfaceLoop(_, _, _, _)
IfaceLoop(lines, r, inSection, out) ==
    IF lines = <<>> THEN [missing |-> FALSE, lines |-> out]
    ELSE LET line == Head(lines)
             s == Strip(line)
             rest == Tail(lines) IN
         IF s.k = "auto" /\ StartsWith(s.name, r.interface)
         THEN IfaceLoop(rest, r, inSection, Append(out, line))
         ELSE IF s.k = "iface" /\ StartsWith(s.name, r.interface)
         THEN IF r.method = "static" /\ MissingStatic(r)
              THEN [missing |-> TRUE, lines |-> out]
              ELSE IfaceLoop(rest, r, TRUE, out \o IfaceStanza(r))
         ELSE IF inSection /\ s.k \in SectionKeys
         THEN IF s.k = "iface" /\ s # IfaceLine(r)
              THEN IfaceLoop(rest, r, FALSE, Append(out, line))
              ELSE IfaceLoop(rest, r, inSection, out)
         ELSE IF ~inSection THEN IfaceLoop(rest, r, inSection, Append(out, line))
         ELSE IfaceLoop(rest, r, inSection, out)

\* Fault variant of change_ip_configuration: the backup copy is taken before
\* write permission is tested.
change_ip_configuration_backup_first(h, r, e) ==
    LET backed == [h EXCEPT !.bk = CopyBackup(h.bk, "interfaces", h.now, h.ifc)]
        loop == IfaceLoop(h.ifc.lines, r, FALSE, <<>>) IN
    IF ~h.ifc.exists THEN Failure("No write permission", h)
    ELSE IF ~e.writable
    THEN Effect(FALSE, "No write permission", backed, <<BackedUp("interfaces", h.now)>>)
    ELSE IF loop.missing
    THEN Effect(FALSE, "Missing static IP parameters", backed,
                <<BackedUp("interfaces", h.now)>>)
    ELSE Effect(TRUE, "IP configuration updated successfully",
                [backed EXCEPT !.ifc = File(loop.lines)],
                <<BackedUp("interfaces", h.now), Wrote("interfaces")>>)

\* change_ip_configuration; e.writable is os.access(interfaces_file, os.W_OK).
change_ip_configuration(h, r, e) ==
    IF ~(h.ifc.exists /\ e.writable)
    THEN Failure("No write permission", h)
    ELSE LET backed == [h EXCEPT !.bk = CopyBackup(h.bk, "interfaces", h.now, h.ifc)]
             loop == IfaceLoop(h.ifc.lines, r, FALSE, <<>>) IN
         IF loop.missing
         THEN Effect(FALSE, "Missing static IP parameters", backed,
                     <<BackedUp("interfaces", h.now)>>)
         ELSE Effect(TRUE, "IP configuration updated successfully",
                     [backed EXCEPT !.ifc = File(loop.lines)],
                     <<BackedUp("interfaces", h.now), Wrote("interfaces")>>)

\* restart_networking_service on the interfaces backend: 'systemctl restart
\* networking'; on CalledProcessError ("fail") an unchecked ifdown/ifup of
\* eth0; any other exception ("raise") is reported as failure.
restart_networking_service(method, outcome) ==
    IF method = "networkmanager"
    THEN [ok |-> outcome = "ok", trace |-> <<Cmd("systemctl restart NetworkManager")>>]
    ELSE IF method = "dhcpcd"
    THEN [ok |-> outcome = "ok", trace |-> <<Cmd("systemctl restart dhcpcd")>>]
    ELSE IF method = "interfaces"
    THEN IF outcome = "ok"
         THEN [ok |-> TRUE, trace |-> <<Cmd("systemctl restart networking")>>]
         ELSE IF outcome = "fail"
         THEN [ok |-> TRUE,
               trace |-> <<Cmd("systemctl restart networking"),
                           Cmd("ifdown eth0"), Cmd("ifup eth0")>>]
         ELSE [ok |-> FALSE, trace |-> <<Cmd("systemctl restart networking")>>]
    ELSE [ok |-> FALSE, trace |-> <<>>]

\* The tail shared by _set_interfaces_static and _set_interfaces_dhcp.
InterfacesCommit(h, r, e, method) ==
    LET c == change_ip_configuration(h, r, e)
        rs == restart_networking_service(method, e.restart) IN
    IF ~c.ok THEN c
    ELSE Effect(rs.ok, IF rs.ok THEN c.msg ELSE "Failed to restart network service",
                c.host, c.trace \o rs.trace)

\* _set_interfaces_static
set_interfaces_static(h, r, e, method) ==
    IF ~h.ifc.exists THEN Failure("/etc/network/interfaces not found", h)
    ELSE IF ~validate_network_config(r.static_ip, r.netmask, r.gateway)
    THEN Failure("Invalid network config", h)
    ELSE InterfacesCommit(h, r, e, method)

\* _set_interfaces_dhcp: change_ip_configuration(interface, "dhcp")
set_interfaces_dhcp(h, r, e, method) ==
    IF ~h.ifc.exists THEN Failure("/etc/network/interfaces not found", h)
    ELSE InterfacesCommit(h, Request(r.interface, "dhcp", NoAddr, NoAddr, NoAddr, ""),
                          e, method)

\* -------------------------------------------------------- NetworkManager
\* A saved connection profile as nmcli reports and changes it: its name, its
\* type, the interface it binds to, whether it is active on that interface,
\* and its ipv4 settings (addr is ip followed by the prefix length).
Profile(name, type, ifname, active) ==
    [name |-> name, type |-> type, ifname |-> ifname, active |-> active,
     method |-> "auto", addr |-> NoAddr, gateway |-> NoAddr, dns |-> ""]

\* dns.replace(' ', ',') on the DNS lists the model draws.
DnsCommas(d) == IF d = "8.8.8.8 8.8.4.4" THEN "8.8.8.8,8.8.4.4" ELSE d

\* Index of the first TRUE of a sequence of flags, 0 if none: the first
\* line of a listing that passes the test of a loop over it.
FirstTrue(flags) ==
    IF \E i \in DOMAIN flags : flags[i]
    THEN CHOOSE i \in DOMAIN flags : flags[i] /\ \A j \in 1..(i - 1) : ~flags[j]
    ELSE 0

\* _get_ethernet_connection_name; listOk: 'nmcli connection show' exits 0.
get_ethernet_connection_name(conns, interface, listOk) ==
    LET OnDevice(c) == c.type = "ethernet" /\ c.active /\ c.ifname = interface
        AnyEthernet(c) == c.type = "ethernet"
        i == FirstTrue([n \in DOMAIN conns |-> OnDevice(conns[n])])
        j == FirstTrue([n \in DOMAIN conns |-> AnyEthernet(conns[n])]) IN
    IF ~listOk THEN "Wired connection 1"
    ELSE IF i # 0 THEN conns[i].name
    ELSE IF j # 0 THEN conns[j].name
    ELSE "Wired connection 1"

HasProfile(conns, name) == \E i \in 1..Len(conns) : conns[i].name = name

\* 'nmcli con modify <name> ...' applied to the profile of that name.
ModifyProfile(conns, name, method, addr, gateway, dns) ==
    [i \in 1..Len(conns) |->
        IF conns[i].name = name
        THEN [conns[i] EXCEPT !.method = method, !.addr = addr,
                              !.gateway = gateway, !.dns = dns]
        ELSE conns[i]]

\* 'nmcli con down <name>' / 'nmcli con up <name>' applied to the profiles:
\* activating a profile replaces the one active on the same interface.
SetActive(conns, name, active) ==
    LET k == CHOOSE i \in 1..Len(conns) : conns[i].name = name IN
    [i \in 1..Len(conns) |->
        IF i = k THEN [conns[i] EXCEPT !.active = active]
        ELSE IF active /\ conns[i].ifname = conns[k].ifname
        THEN [conns[i] EXCEPT !.active = FALSE]
        ELSE conns[i]]

IsActiveProfile(conns, name) ==
    \E i \in 1..Len(conns) : conns[i].name = name /\ conns[i].active

\* The down/up reactivation shared by both NetworkManager writers: each
\* command runs with check=True, and a CalledProcessError from either ends
\* the attempt.  down exits non-zero for a profile that is not active.
Reactivate(conns, name, e) ==
    LET downOk == e.down /\ IsActiveProfile(conns, name)
        afterDown == IF downOk THEN SetActive(conns, name, FALSE) ELSE conns IN
    IF ~downOk
    THEN [ok |-> FALSE, conns |-> conns, trace |-> <<Cmd("nmcli con down")>>]
    ELSE IF ~e.up
    THEN [ok |-> FALSE, conns |-> afterDown,
          trace |-> <<Cmd("nmcli con down"), Cmd("nmcli con up")>>]
    ELSE [ok |-> TRUE, conns |-> SetActive(afterDown, name, TRUE),
          trace |-> <<Cmd("nmcli con down"), Cmd("nmcli con up")>>]

\* _set_networkmanager_static
set_networkmanager_static(h, r, e) ==
    LET name == get_ethernet_connection_name(h.nm, r.interface, e.list)
        modOk == e.modify /\ HasProfile(h.nm, name)
        dns == IF r.dns # "" THEN DnsCommas(r.dns)
               ELSE (IF HasProfile(h.nm, name)
                     THEN h.nm[CHOOSE i \in 1..Len(h.nm) : h.nm[i].name = name].dns
                     ELSE "")
        conns == ModifyProfile(h.nm, name, "manual",
                               r.static_ip \o <<netmask_to_cidr(r.netmask).ret>>,
                               r.gateway, dns)
        re == Reactivate(conns, name, e) IN
    IF ~validate_network_config(r.static_ip, r.netmask, r.gateway)
    THEN Failure("Invalid network config", h)
    ELSE IF ~modOk
    THEN Effect(FALSE, "nmcli command failed", h, <<Cmd("nmcli con modify")>>)
    ELSE Effect(TRUE,
                IF re.ok THEN "Static IP set and activated"
                ELSE "Static IP configured. Connect ethernet cable to activate.",
                [h EXCEPT !.nm = re.conns], <<Cmd("nmcli con modify")>> \o re.trace)

\* The three unchecked clearing commands of _set_networkmanager_dhcp; their
\* exit status is ignored (e.clear: the tool accepted them).
ClearProfile(conns, name, accepted) ==
    IF ~accepted THEN conns
    ELSE [i \in 1..Len(conns) |->
            IF conns[i].name = name
            THEN [conns[i] EXCEPT !.addr = NoAddr, !.gateway = NoAddr, !.dns = ""]
            ELSE conns[i]]

\* _set_networkmanager_dhcp: three unchecked clearing commands, then the
\* checked 'ipv4.method auto', then the reactivation.
set_networkmanager_dhcp(h, r, e) ==
    LET name == get_ethernet_connection_name(h.nm, r.interface, e.list)
        modOk == e.modify /\ HasProfile(h.nm, name)
        cleared == ClearProfile(h.nm, name, e.clear)
        conns == [i \in 1..Len(cleared) |->
                    IF cleared[i].name = name
                    THEN [cleared[i] EXCEPT !.method = "auto"] ELSE cleared[i]]
        re == Reactivate(conns, name, e)
        clear == <<Cmd("nmcli con modify"), Cmd("nmcli con modify"),
                   Cmd("nmcli con modify")>> IN
    IF ~modOk
    THEN Effect(FALSE, "nmcli command failed", [h EXCEPT !.nm = cleared],
                clear \o <<Cmd("nmcli con modify")>>)
    ELSE Effect(TRUE,
                IF re.ok THEN "DHCP configured and activated"
                ELSE "DHCP configured. Connect ethernet cable to activate.",
                [h EXCEPT !.nm = re.conns],
                clear \o <<Cmd("nmcli con modify")>> \o re.trace)

\* The entry _read_networkmanager_config builds for one device from the
\* profile it associates with it (index k, 0: none).  The DNS lists the
\* model draws hold no ';', which value.replace(';', ' ') would change.
NmEntry(conns, k) ==
    IF k = 0 THEN DhcpEntry
    ELSE LET c == conns[k] IN
         Entry(IF c.method = "manual" THEN "static" ELSE "dhcp",
               IF c.addr # NoAddr THEN SubSeq(c.addr, 1, 4) ELSE NoAddr,
               IF c.addr # NoAddr THEN cidr_to_netmask(c.addr[5]) ELSE NoAddr,
               IF c.addr # NoAddr THEN c.addr[5] ELSE -1,
               c.gateway, c.dns)

\* _read_networkmanager_config over the devices eth0 and wlan0; statusOk:
\* 'nmcli device status' exits 0.  eth0 without an active connection is
\* associated with the first saved ethernet profile.
read_networkmanager_config(conns, statusOk) ==
    LET ActiveOn(d) ==
            FirstTrue([n \in DOMAIN conns |-> conns[n].active /\ conns[n].ifname = d])
        AnyEthernet(c) == c.type = "ethernet"
        eth == IF ActiveOn(Eth0) # 0 THEN ActiveOn(Eth0)
               ELSE FirstTrue([n \in DOMAIN conns |-> AnyEthernet(conns[n])]) IN
    IF ~statusOk THEN ReadFail("NetworkManager command failed")
    ELSE ReadOk(Put(Put(EmptyMap, Eth0, NmEntry(conns, eth)),
                    Wlan0, NmEntry(conns, ActiveOn(Wlan0))))

\* -------------------------------------------------------------- dispatch
Methods == {"networkmanager", "dhcpcd", "systemd-networkd", "interfaces"}

\* read_current_ip_config: the reader of the detected method.
read_current_ip_config(method, h, e) ==
    IF method = "networkmanager" THEN read_networkmanager_config(h.nm, e.list)
    ELSE IF method = "dhcpcd" THEN read_dhcpcd_config(h.dh)
    ELSE IF method = "interfaces" THEN read_interfaces_config(h.ifc, e.readable)
    ELSE ReadFail("Unsupported network method")

\* Fault variant of set_static_ip: a method that is none of the first two
\* falls through to the interfaces writer.
set_static_ip_fallthrough(method, h, r, e) ==
    IF method = "networkmanager" THEN set_networkmanager_static(h, r, e)
    ELSE IF method = "dhcpcd" THEN set_dhcpcd_static(h, r, e)
    ELSE set_interfaces_static(h, r, e, method)

\* set_static_ip: the static writer of the detected method.
set_static_ip(method, h, r, e) ==
    IF method = "networkmanager" THEN set_networkmanager_static(h, r, e)
    ELSE IF method = "dhcpcd" THEN set_dhcpcd_static(h, r, e)
    ELSE IF method = "interfaces" THEN set_interfaces_static(h, r, e, method)
    ELSE Failure("Unsupported network method", h)

\* set_dynamic_ip: the dhcp writer of the detected method.
set_dynamic_ip(method, h, r, e) ==
    IF method = "networkmanager" THEN set_networkmanager_dhcp(h, r, e)
    ELSE IF method = "dhcpcd" THEN set_dhcpcd_dhcp(h, r, e)
    ELSE IF method = "interfaces" THEN set_interfaces_dhcp(h, r, e, method)
    ELSE Failure("Unsupported network method", h)

\* ------------------------------------------------------------------ WiFi
\* Every WiFi operation goes through run_nmcli_command, which turns a
\* non-zero exit, a missing tool and a timeout into (False, message).
WifiActive(conns) ==
    FirstTrue([n \in DOMAIN conns |-> conns[n].active /\ conns[n].ifname = Wlan0])

\* Fault variant of disconnect_current_wifi: any error of nmcli is a
\* failure.
disconnect_strict(h, e) ==
    LET k == WifiActive(h.nm)
        t == <<Cmd("nmcli device disconnect wlan0")>> IN
    IF ~e.tool \/ k = 0 THEN Effect(FALSE, "Failed to disconnect current Wi-Fi", h, t)
    ELSE Effect(TRUE, "Successfully disconnected.",
                [h EXCEPT !.nm = SetActive(h.nm, h.nm[k].name, FALSE)], t)

\* disconnect_current_wifi; e.tool: nmcli runs at all; e.notconn: the
\* error nmcli gives for an idle device contains "not connected".
disconnect_current_wifi(h, e) ==
    LET k == WifiActive(h.nm)
        t == <<Cmd("nmcli device disconnect wlan0")>> IN
    IF ~e.tool THEN Effect(FALSE, "Failed to disconnect current Wi-Fi", h, t)
    ELSE IF k = 0
    THEN (IF e.notconn THEN Effect(TRUE, "Successfully disconnected.", h, t)
          ELSE Effect(FALSE, "Failed to disconnect current Wi-Fi", h, t))
    ELSE Effect(TRUE, "Successfully disconnected.",
                [h EXCEPT !.nm = SetActive(h.nm, h.nm[k].name, FALSE)], t)

\* 'nmcli dev wifi connect <ssid>': the profile named ssid is created when
\* it is not saved yet, and activated on wlan0.
WifiJoin(conns, ssid) ==
    SetActive(IF HasProfile(conns, ssid) THEN conns
              ELSE Append(conns, Profile(ssid, "802-11-wireless", Wlan0, FALSE)),
              ssid, TRUE)

\* Fault variant of connect_wifi: the connect command is issued whatever
\* the disconnect answered.
connect_wifi_regardless(h, ssid, e) ==
    LET d == disconnect_current_wifi(h, e)
        t == d.trace \o <<Cmd("nmcli dev wifi connect")>> IN
    IF ~e.connect THEN Effect(FALSE, "Failed to connect", d.host, t)
    ELSE Effect(TRUE, IF e.probe = "ip" THEN "ip" ELSE "IP not found",
                [d.host EXCEPT !.nm = WifiJoin(d.host.nm, ssid)],
                t \o <<Cmd("nmcli device show wlan0")>>)

\* Fault variant of connect_wifi: a probe that yields no address is a
\* failure.
connect_wifi_probe_required(h, ssid, e) ==
    LET d == disconnect_current_wifi(h, e)
        t == d.trace \o <<Cmd("nmcli dev wifi connect")>> IN
    IF ~d.ok THEN d
    ELSE IF ~e.connect THEN Effect(FALSE, "Failed to connect", d.host, t)
    ELSE Effect(e.probe = "ip", IF e.probe = "ip" THEN "ip" ELSE "IP not found",
                [d.host EXCEPT !.nm = WifiJoin(d.host.nm, ssid)],
                t \o <<Cmd("nmcli device show wlan0")>>)

\* connect_wifi; e.connect: the connect command exits 0; e.probe: what
\* 'nmcli device show wlan0' yields ("ip", "noip" or "fail").
connect_wifi(h, ssid, e) ==
    LET d == disconnect_current_wifi(h, e)
        t == d.trace \o <<Cmd("nmcli dev wifi connect")>> IN
    IF ~d.ok THEN d
    ELSE IF ~e.connect THEN Effect(FALSE, "Failed to connect", d.host, t)
    ELSE Effect(TRUE, IF e.probe = "ip" THEN "ip" ELSE "IP not found",
                [d.host EXCEPT !.nm = WifiJoin(d.host.nm, ssid)],
                t \o <<Cmd("nmcli device show wlan0")>>)

\* 'nmcli connection delete uuid <uuid>' applied to the profiles.
RemoveAt(conns, k) ==
    [i \in 1..(Len(conns) - 1) |-> IF i < k THEN conns[i] ELSE conns[i + 1]]

\* Fault variant of delete_wifi: the loop over the listing does not stop at
\* the first match, so the last matching entry is deleted.
delete_wifi_last_match(h, ssid, e) ==
    LET hit == {n \in DOMAIN h.nm : h.nm[n].name = ssid}
        k == IF hit = {} THEN 0 ELSE CHOOSE n \in hit : \A m \in hit : m <= n
        t == <<Cmd("nmcli connection show")>> IN
    IF ~e.list THEN Effect(FALSE, "Failed to fetch Wi-Fi connections", h, t)
    ELSE IF k = 0 THEN Effect(FALSE, "not found in saved connections", h, t)
    ELSE IF ~e.delete
    THEN Effect(FALSE, "Failed to delete Wi-Fi connection", h,
                t \o <<Cmd("nmcli connection delete")>>)
    ELSE Effect(TRUE, "deleted successfully",
                [h EXCEPT !.nm = RemoveAt(h.nm, k)],
                t \o <<Cmd("nmcli connection delete")>>)

\* delete_wifi; e.list: the listing exits 0; e.delete: the delete exits 0.
delete_wifi(h, ssid, e) ==
    LET k == FirstTrue([n \in DOMAIN h.nm |-> h.nm[n].name = ssid])
        t == <<Cmd("nmcli connection show")>> IN
    IF ~e.list THEN Effect(FALSE, "Failed to fetch Wi-Fi connections", h, t)
    ELSE IF k = 0 THEN Effect(FALSE, "not found in saved connections", h, t)
    ELSE IF ~e.delete
    THEN Effect(FALSE, "Failed to delete Wi-Fi connection", h,
                t \o <<Cmd("nmcli connection delete")>>)
    ELSE Effect(TRUE, "deleted successfully",
                [h EXCEPT !.nm = RemoveAt(h.nm, k)],
                t \o <<Cmd("nmcli connection delete")>>)

\* get_wifi_status; e.tool: 'nmcli device status' exits 0.  The result
\* carries an "error" key exactly when that first command fails.
get_wifi_status(h, e) ==
    LET k == WifiActive(h.nm) IN
    IF ~e.tool THEN [connected |-> FALSE, ssid |-> "", error |-> TRUE]
    ELSE [connected |-> k # 0, ssid |-> IF k # 0 THEN h.nm[k].name ELSE "",
          error |-> FALSE]

\* A line of the scan listing: its SSID and its SIGNAL field (-1: the field
\* is not a decimal number).
Net(ssid, signal) == [ssid |-> ssid, signal |-> signal]

\* The dedup loop of scan_wifi: an empty SSID is skipped, the first line of
\* an SSID is kept.
RECURSIVE Dedup(_, _)
Dedup(feed, seen) ==
    IF feed = <<>> THEN <<>>
    ELSE IF Head(feed).ssid # "" /\ Head(feed).ssid \notin seen
    THEN <<Head(feed)>> \o Dedup(Tail(feed), seen \cup {Head(feed).ssid})
    ELSE Dedup(Tail(feed), seen)

\* key=lambda x: int(x["signal"]) if x["signal"].isdigit() else 0
SignalKey(n) == IF n.signal >= 0 THEN n.signal ELSE 0

\* list.sort(key=..., reverse=True): stable, descending.
RECURSIVE InsertDesc(_, _)
InsertDesc(sorted, n) ==
    IF sorted = <<>> THEN <<n>>
    ELSE IF SignalKey(Head(sorted)) >= SignalKey(n)
    THEN <<Head(sorted)>> \o InsertDesc(Tail(sorted), n)
    ELSE <<n>> \o sorted

RECURSIVE SortDesc(_, _)
SortDesc(list, acc) ==
    IF list = <<>> THEN acc ELSE SortDesc(Tail(list), InsertDesc(acc, Head(list)))

\* Fault variant of scan_wifi: the list is returned in the order of the
\* listing.
scan_wifi_unsorted(h, e) == IF ~e.scan THEN <<>> ELSE Dedup(e.feed, {})

\* scan_wifi; e.scan: the listing command exits 0; e.feed: its lines.
scan_wifi(h, e) == IF ~e.scan THEN <<>> ELSE SortDesc(Dedup(e.feed, {}), <<>>)

\* ---------------------------------------------------------- config store
\* A JSON configuration value: an object (dict) with its "mqtt" and
\* "thermal" sections (0: section absent), or a value that is no object.
Cfg(dict, mqtt, thermal) == [dict |-> dict, mqtt |-> mqtt, thermal |-> thermal]
EmptyCfg == Cfg(TRUE, 0, 0)

\* The config file: whether it exists, whether it parses, and its value.
CfgFile(exists, valid, val) == [exists |-> exists, valid |-> valid, val |-> val]

\* load_config: every failure leaves the empty config.
load_config(disk) == IF disk.exists /\ disk.valid THEN disk.val ELSE EmptyCfg

\* -------------------------------------------------------------- handlers
\* The agent's own state next to the host: the in-memory config, the config
\* file and its backup copies.
Store(mem, disk, cbk) == [mem |-> mem, disk |-> disk, cbk |-> cbk]

\* What a handler (or its try body) did: the host and store it leaves, its
\* trace, whether an exception left it (raised), whether one was caught and
\* turned into a response (caught), and the operation's result ("ok",
\* "fail", or "none" when no operation ran).
Outcome(h, st, trace, raised, caught, result) ==
    [host |-> h, store |-> st, trace |-> trace, raised |-> raised,
     caught |-> caught, result |-> result]

\* raise inside a try body, after the effects made so far.
Raise(h, st, trace) == Outcome(h, st, trace, TRUE, FALSE, "none")

Pub(topic, f) == Ev("pub", topic, 0, f)

\* The fields of a response payload before it is published.
Data(status, ts, rr, gateway, err) ==
    [status |-> status, ts |-> ts, devid |-> FALSE, rr |-> rr,
     gateway |-> gateway, err |-> err, networks |-> <<>>]
ErrorData(err) == Data("", FALSE, FALSE, NoAddr, err)

\* _publish_response: {"status": status, "timestamp", "device_id", **data}
publish_response(status, data) ==
    Pub("rpi/config/response",
        [data EXCEPT !.status = IF data.status # "" THEN data.status ELSE status,
                     !.ts = TRUE, !.devid = TRUE])

\* _publish_network_response
publish_network_response(status, data) ==
    Pub("rpi/network/response",
        [data EXCEPT !.status = IF data.status # "" THEN data.status ELSE status,
                     !.ts = TRUE, !.devid = TRUE])

\* Fault variant of _publish_wifi_response: the handler's data is published
\* as it is.
publish_wifi_response_bare(topic, data) == Pub(topic, data)

\* _publish_wifi_response: {"timestamp", "device_id", **data}
publish_wifi_response(topic, data) ==
    Pub(topic, [data EXCEPT !.ts = TRUE, !.devid = TRUE])

\* _publish_wifi_status_response
publish_wifi_status_response(data) ==
    Pub("rpi/wifi/status/response", [data EXCEPT !.ts = TRUE, !.devid = TRUE])

\* except Exception as e: <publish the error response>
Except(b, pub) ==
    IF b.raised THEN [b EXCEPT !.trace = @ \o <<pub>>, !.raised = FALSE, !.caught = TRUE]
    ELSE b

\* _handle_get_config
handle_get_config(h, st) ==
    Outcome(h, [st EXCEPT !.mem = load_config(st.disk)],
            <<publish_response("success", Data("success", TRUE, FALSE, NoAddr, ""))>>,
            FALSE, FALSE, "ok")

\* save_config; e.save: the copy and the write succeed ("ok") or the first
\* of them raises ("fail").  A copy is taken only of an existing file.
save_config(h, st, e) ==
    IF e.save # "ok" THEN [ok |-> FALSE, store |-> st, trace |-> <<>>]
    ELSE [ok |-> TRUE,
          store |-> [st EXCEPT !.disk = CfgFile(TRUE, TRUE, st.mem),
                               !.cbk = IF st.disk.exists
                                       THEN CopyBackup(st.cbk, "config", h.now, st.disk)
                                       ELSE st.cbk],
          trace |-> (IF st.disk.exists THEN <<BackedUp("config", h.now)>> ELSE <<>>)
                    \o <<Wrote("config")>>]

\* Fault variant of the try body of _handle_set_config: self.config is
\* assigned before the payload is checked for the 'config' key.
SetConfigBodyAssigningFirst(h, st, p, e) ==
    LET st2 == [st EXCEPT !.mem = p.cfg]
        sv == save_config(h, st2, e)
        changed == st.mem.mqtt # p.cfg.mqtt \/ st.mem.thermal # p.cfg.thermal IN
    IF p.enc # "object" THEN Raise(h, st, <<>>)
    ELSE IF ~p.has_config THEN Raise(h, [st EXCEPT !.mem = Cfg(FALSE, 0, 0)], <<>>)
    ELSE IF ~st.mem.dict THEN Raise(h, st, <<>>)
    ELSE IF ~sv.ok THEN Raise(h, st2, <<>>)
    ELSE IF ~p.cfg.dict THEN Raise(h, sv.store, sv.trace)
    ELSE Outcome(h, sv.store,
                 sv.trace
                 \o (IF changed THEN <<Cmd("systemctl restart thermal-mqtt")>> ELSE <<>>)
                 \o <<publish_response("success",
                                       Data("success", TRUE, changed, NoAddr, ""))>>,
                 FALSE, FALSE, "ok")

\* The try body of _handle_set_config.
SetConfigBody(h, st, p, e) ==
    LET st2 == [st EXCEPT !.mem = p.cfg]
        sv == save_config(h, st2, e)
        changed == st.mem.mqtt # p.cfg.mqtt \/ st.mem.thermal # p.cfg.thermal IN
    IF p.enc # "object" THEN Raise(h, st, <<>>)
    ELSE IF ~p.has_config THEN Raise(h, st, <<>>)
    ELSE IF ~st.mem.dict THEN Raise(h, st, <<>>)
    ELSE IF ~sv.ok THEN Raise(h, st2, <<>>)
    ELSE IF ~p.cfg.dict THEN Raise(h, sv.store, sv.trace)
    ELSE Outcome(h, sv.store,
                 sv.trace
                 \o (IF changed THEN <<Cmd("systemctl restart thermal-mqtt")>> ELSE <<>>)
                 \o <<publish_response("success",
                                       Data("success", TRUE, changed, NoAddr, ""))>>,
                 FALSE, FALSE, "ok")

\* str(e) of the exception the try body of _handle_set_config raises.
SetConfigError(st, p, e) ==
    IF p.enc = "bad_json" THEN "Expecting value"
    ELSE IF p.enc # "object" THEN "argument of type 'int' is not iterable"
    ELSE IF ~p.has_config THEN "Missing 'config' field"
    ELSE IF ~st.mem.dict THEN "object has no attribute 'copy'"
    ELSE IF e.save # "ok" THEN "Failed to save config"
    ELSE "object has no attribute 'get'"

\* _handle_set_config
handle_set_config(h, st, p, e) ==
    Except(SetConfigBody(h, st, p, e),
           publish_response("error", ErrorData(SetConfigError(st, p, e))))

\* _handle_get_network_config
handle_get_network_config(method, h, st, e) ==
    LET r == read_current_ip_config(method, h, e) IN
    IF r.ok
    THEN Outcome(h, st,
                 <<publish_network_response("success",
                                            Data("success", TRUE, FALSE, NoAddr, ""))>>,
                 FALSE, FALSE, "ok")
    ELSE Outcome(h, st, <<publish_network_response("error", ErrorData(r.msg))>>,
                 FALSE, FALSE, "fail")

\* A JSON field that is absent (or null), and one of a wrong type (a
\* number where a string is expected).
AbsentAddr == <<-2>>
WrongType == <<-3>>

\* An inbound payload.  enc: "bad_utf8" (bytes that do not decode),
\* "bad_json", "non_object" (valid JSON that is no object) or "object"; the
\* other fields are the object's keys ("" / NoName / NoAddr: key absent or
\* empty; AbsentAddr / "absent": key absent where an empty value differs).
Payload(enc, has_config, cfg, interface, method, static_ip, netmask, gateway, dns, reboot, ssid) ==
    [enc |-> enc, has_config |-> has_config, cfg |-> cfg, interface |-> interface,
     method |-> method, static_ip |-> static_ip, netmask |-> netmask,
     gateway |-> gateway, dns |-> dns, reboot |-> reboot, ssid |-> ssid]

\* f"{ip_parts[0]}.{ip_parts[1]}.{ip_parts[2]}.1", or the fixed default
\* when static_ip does not split into four parts.
DefaultGateway(static_ip) ==
    IF Len(static_ip) = 4 THEN SubSeq(static_ip, 1, 3) \o <<1>>
    ELSE <<192, 168, 0, 1>>

\* The request _handle_set_network_config builds from the payload.
NetworkRequest(p) ==
    Request(IF p.interface = NoName THEN Eth0 ELSE p.interface,
            p.method, p.static_ip,
            IF p.netmask = AbsentAddr THEN <<255, 255, 255, 0>> ELSE p.netmask,
            IF p.gateway = NoAddr THEN DefaultGateway(p.static_ip) ELSE p.gateway,
            IF p.dns = "absent" THEN "8.8.8.8 8.8.4.4" ELSE p.dns)

\* Fault variant of the try body of _handle_set_network_config: the reboot
\* is issued whenever it was asked for, and before the response.
SetNetworkReplyRebootingFirst(h, st, p, r, eff) ==
    LET status == IF eff.ok THEN "success" ELSE "error" IN
    IF p.enc # "object" THEN Raise(h, st, <<>>)
    ELSE IF p.method = "" THEN Raise(h, st, <<>>)
    ELSE IF p.method = "static" /\ p.static_ip = NoAddr THEN Raise(h, st, <<>>)
    ELSE IF p.method = "static" /\ p.gateway = WrongType THEN Raise(h, st, <<>>)
    ELSE IF p.method \notin {"static", "dhcp"} THEN Raise(h, st, <<>>)
    ELSE Outcome(eff.host, st,
                 eff.trace
                 \o (IF p.reboot THEN <<Cmd("sudo reboot")>> ELSE <<>>)
                 \o <<publish_network_response(
                        status,
                        Data(status, TRUE, FALSE,
                             IF p.method = "static" THEN r.gateway ELSE NoAddr, eff.msg))>>,
                 FALSE, FALSE, IF eff.ok THEN "ok" ELSE "fail")

\* The try body of _handle_set_network_config, given the request r it
\* builds and the effect eff of the writer it calls.
SetNetworkReply(h, st, p, r, eff) ==
    LET status == IF eff.ok THEN "success" ELSE "error" IN
    IF p.enc # "object" THEN Raise(h, st, <<>>)
    ELSE IF p.method = "" THEN Raise(h, st, <<>>)
    ELSE IF p.method = "static" /\ p.static_ip = NoAddr THEN Raise(h, st, <<>>)
    ELSE IF p.method = "static" /\ p.gateway = WrongType THEN Raise(h, st, <<>>)
    ELSE IF p.method \notin {"static", "dhcp"} THEN Raise(h, st, <<>>)
    ELSE Outcome(eff.host, st,
                 eff.trace
                 \o <<publish_network_response(
                        status,
                        Data(status, TRUE, FALSE,
                             IF p.method = "static" THEN r.gateway ELSE NoAddr, eff.msg))>>
                 \o (IF eff.ok /\ p.reboot THEN <<Cmd("sudo reboot")>> ELSE <<>>),
                 FALSE, FALSE, IF eff.ok THEN "ok" ELSE "fail")

\* The try body of _handle_set_network_config: method "static" goes to
\* set_static_ip, anything else that passes the checks to set_dynamic_ip.
SetNetworkBody(method, h, st, p, e) ==
    SetNetworkReply(h, st, p, NetworkRequest(p),
                    IF p.method = "static"
                    THEN set_static_ip(method, h, NetworkRequest(p), e)
                    ELSE set_dynamic_ip(method, h, NetworkRequest(p), e))

\* _handle_set_network_config
handle_set_network_config(method, h, st, p, e) ==
    Except(SetNetworkBody(method, h, st, p, e),
           publish_network_response("error", ErrorData("set_network_config")))

\* _handle_wifi_scan: the list scan_wifi returns is published with status
\* "success", whether or not the listing command worked.
handle_wifi_scan(h, st, e) ==
    Outcome(h, st,
            <<publish_wifi_response(
                "rpi/wifi/scan_response",
                [Data("success", TRUE, FALSE, NoAddr, "") EXCEPT
                    !.networks = scan_wifi(h, e)])>>,
            FALSE, FALSE, "ok")

\* The try body of a WiFi handler that runs operation op on the payload's
\* ssid and publishes its result on topic.
WifiBody(h, st, p, needsSsid, eff, topic) ==
    LET status == IF eff.ok THEN "success" ELSE "error" IN
    IF needsSsid /\ p.enc # "object" THEN Raise(h, st, <<>>)
    ELSE IF needsSsid /\ p.ssid = "" THEN Raise(h, st, <<>>)
    ELSE Outcome(eff.host, st,
                 eff.trace
                 \o <<publish_wifi_response(
                        topic, Data(status, TRUE, FALSE, NoAddr,
                                    IF eff.ok THEN "" ELSE eff.msg))>>,
                 FALSE, FALSE, IF eff.ok THEN "ok" ELSE "fail")

\* _handle_wifi_connect
handle_wifi_connect(h, st, p, e) ==
    Except(WifiBody(h, st, p, TRUE, connect_wifi(h, p.ssid, e),
                    "rpi/wifi/connect_response"),
           publish_wifi_response("rpi/wifi/connect_response",
                                 Data("error", FALSE, FALSE, NoAddr, "wifi_connect")))

\* _handle_wifi_disconnect
handle_wifi_disconnect(h, st, p, e) ==
    Except(WifiBody(h, st, p, FALSE, disconnect_current_wifi(h, e),
                    "rpi/wifi/disconnect_response"),
           publish_wifi_response("rpi/wifi/disconnect_response",
                                 Data("error", FALSE, FALSE, NoAddr, "wifi_disconnect")))

\* _handle_wifi_delete
handle_wifi_delete(h, st, p, e) ==
    Except(WifiBody(h, st, p, TRUE, delete_wifi(h, p.ssid, e),
                    "rpi/wifi/delete_response"),
           publish_wifi_response("rpi/wifi/delete_response",
                                 Data("error", FALSE, FALSE, NoAddr, "wifi_delete")))

\* _handle_wifi_status_get: "partial_error" when the status carries "error".
handle_wifi_status_get(h, st, e) ==
    Outcome(h, st,
            <<publish_wifi_status_response(
                Data(IF get_wifi_status(h, e).error THEN "partial_error" ELSE "success",
                     TRUE, FALSE, NoAddr, ""))>>,
            FALSE, FALSE, IF get_wifi_status(h, e).error THEN "fail" ELSE "ok")

\* The try body of _on_message: decode the payload, then the handler of the
\* topic.  A topic without a handler does nothing.
OnMessageBody(method, h, st, topic, p, e) ==
    IF p.enc = "bad_utf8" THEN Raise(h, st, <<>>)
    ELSE IF topic = "rpi/config/get" THEN handle_get_config(h, st)
    ELSE IF topic = "rpi/config/set" THEN handle_set_config(h, st, p, e)
    ELSE IF topic = "rpi/network/get" THEN handle_get_network_config(method, h, st, e)
    ELSE IF topic = "rpi/network/set" THEN handle_set_network_config(method, h, st, p, e)
    ELSE IF topic = "rpi/wifi/scan" THEN handle_wifi_scan(h, st, e)
    ELSE IF topic = "rpi/wifi/connect" THEN handle_wifi_connect(h, st, p, e)
    ELSE IF topic = "rpi/wifi/disconnect" THEN handle_wifi_disconnect(h, st, p, e)
    ELSE IF topic = "rpi/wifi/delete" THEN handle_wifi_delete(h, st, p, e)
    ELSE IF topic = "rpi/wifi/status/get" THEN handle_wifi_status_get(h, st, e)
    ELSE Outcome(h, st, <<>>, FALSE, FALSE, "none")

\* Fault variant of _on_message: the try without its except clause.
on_message_without_except(method, h, st, topic, p, e) ==
    OnMessageBody(method, h, st, topic, p, e)

\* _on_message: any exception of the body is answered through
\* _publish_response, that is on rpi/config/response.
on_message(method, h, st, topic, p, e) ==
    Except(OnMessageBody(method, h, st, topic, p, e),
           publish_response("error", ErrorData("on_message")))

\* ----------------------------------------------------------------- state
VARIABLES
    pc,              \* "new": before __init__; "running"; "crashed": __init__
                     \* raised; "dead": an exception left _on_message
    network_method,  \* self.network_method ("unset" before __init__)
    detect_runs,     \* how many times _detect_network_method has run
    probe,           \* what the probes of the last detection answered
    host,            \* the files, backups, profiles and clock of the host
    store,           \* self.config, the config file and its backups
    last,            \* the last inbound message and what handling it did
    handled,         \* number of inbound messages handled
    call             \* a method applied on its own: its name, arguments and
                     \* result

vars == <<pc, network_method, detect_runs, probe, host, store, last, handled, call>>

\* Sequences over alphabet A of length at most n.
SeqsUpTo(A, n) == UNION {[1..k -> A] : k \in 0..n}

\* Values the model draws.
IpA == <<192, 168, 1, 50>>
IpOther == <<10, 0, 0, 9>>
IpHigh == <<192, 168, 1, 200>>
MaskHalf == <<255, 255, 255, 128>>
IpMalformed == <<192, 168, 1>>
MaskBad == <<255, 255, 255, 255>>
GwOutside == <<10, 0, 0, 1>>

NoProbe == [nm |-> "inactive", dhcpcd |-> "inactive", networkd |-> "inactive",
            ifread |-> "ok"]

\* ----------------------------------------------------------- environment
\* The outcomes of the external steps of one operation.
Env(writable, readable, restart, list, modify, clear, down, up, save, tool, notconn, connect, pr, delete, scan, feed) ==
    [writable |-> writable, readable |-> readable, restart |-> restart,
     list |-> list, modify |-> modify, clear |-> clear, down |-> down, up |-> up,
     save |-> save, tool |-> tool, notconn |-> notconn, connect |-> connect,
     probe |-> pr, delete |-> delete, scan |-> scan, feed |-> feed]

\* Every external step succeeds.
Fine == Env(TRUE, TRUE, "ok", TRUE, TRUE, TRUE, TRUE, TRUE, "ok",
            TRUE, TRUE, TRUE, "ip", TRUE, TRUE, <<>>)

\* ------------------------------------------------------------- payloads
EmptyObject ==
    Payload("object", FALSE, EmptyCfg, NoName, "", NoAddr, AbsentAddr, NoAddr,
            "absent", FALSE, "")
Undecodable == [EmptyObject EXCEPT !.enc = "bad_utf8"]
Malformed == {[EmptyObject EXCEPT !.enc = c] : c \in {"bad_utf8", "bad_json", "non_object"}}

\* Payloads of the topics whose handlers take none.
NoArgPayloads == {EmptyObject, Undecodable}

CfgValues == {Cfg(TRUE, 0, 0), Cfg(TRUE, 1, 0), Cfg(TRUE, 1, 1), Cfg(FALSE, 0, 0)}

ConfigSetPayloads ==
    Malformed \cup {EmptyObject}
    \cup {[EmptyObject EXCEPT !.has_config = TRUE, !.cfg = c] : c \in CfgValues}

RequestInterfaces == {NoName, Eth1}

\* Well-formed static requests, and requests with one fault each.
StaticPayloads ==
    {[EmptyObject EXCEPT !.interface = i, !.method = "static", !.static_ip = IpA,
                         !.dns = d] :
        i \in RequestInterfaces, d \in {"absent", ""}}
    \cup {[EmptyObject EXCEPT !.method = "static", !.static_ip = IpA, !.reboot = TRUE]}
    \cup {[EmptyObject EXCEPT !.method = "static", !.static_ip = ip] :
            ip \in {NoAddr, IpMalformed}}
    \cup {[EmptyObject EXCEPT !.method = "static", !.static_ip = IpA, !.netmask = MaskBad]}
    \cup {[EmptyObject EXCEPT !.method = "static", !.static_ip = IpHigh, !.netmask = MaskHalf]}
    \cup {[EmptyObject EXCEPT !.method = "static", !.static_ip = IpA, !.gateway = g] :
            g \in {GwOutside, WrongType}}

DhcpPayloads ==
    {[EmptyObject EXCEPT !.interface = i, !.method = "dhcp"] : i \in RequestInterfaces}
    \cup {[EmptyObject EXCEPT !.method = "dhcp", !.reboot = TRUE]}

NetworkSetPayloads ==
    Malformed \cup {EmptyObject, [EmptyObject EXCEPT !.method = "bogus"]}
    \cup StaticPayloads \cup DhcpPayloads

Ssids == {"", "home", "cafe"}
WifiPayloads == Malformed \cup {[EmptyObject EXCEPT !.ssid = s] : s \in Ssids}

\* Outcomes of the external steps of the network operations.
NetworkEnvs ==
    {[Fine EXCEPT !.writable = w, !.restart = rs] :
        w \in BOOLEAN, rs \in {"ok", "fail", "raise"}}
    \cup {[Fine EXCEPT !.modify = FALSE], [Fine EXCEPT !.down = FALSE],
          [Fine EXCEPT !.up = FALSE], [Fine EXCEPT !.list = FALSE],
          [Fine EXCEPT !.clear = FALSE], [Fine EXCEPT !.readable = FALSE]}

\* Outcomes of the external steps of a read of the network configuration.
ReadEnvs == {Fine, [Fine EXCEPT !.list = FALSE], [Fine EXCEPT !.readable = FALSE]}

\* Outcomes of the external steps of the WiFi operations: of a disconnect or
\* a status query, of a connect, and of a delete.
RadioEnvs == {Fine, [Fine EXCEPT !.tool = FALSE], [Fine EXCEPT !.notconn = FALSE]}
ConnectEnvs ==
    RadioEnvs \cup {[Fine EXCEPT !.connect = FALSE]}
    \cup {[Fine EXCEPT !.probe = pr] : pr \in {"noip", "fail"}}
DeleteEnvs == {Fine, [Fine EXCEPT !.list = FALSE], [Fine EXCEPT !.delete = FALSE]}

\* --------------------------------------------------------- initial hosts
\* Lines of the dhcpcd files drawn initially.
DhcpcdAlphabet ==
    {Line("interface", Eth0, "", <<>>, FALSE),
     Line("static ip_address", NoName, "", IpOther \o <<24>>, FALSE),
     Line("option", NoName, "hostname", <<>>, FALSE)}

\* Lines of the interfaces files drawn initially.
InterfacesAlphabet ==
    {Line("iface", Eth0, "dhcp", <<>>, FALSE),
     Line("iface", Eth1, "static", <<>>, FALSE),
     Line("iface", Eth0Vlan, "dhcp", <<>>, FALSE),
     Line("auto", Eth1, "", <<>>, FALSE),
     Line("address", NoName, "", IpOther, TRUE)}

\* Saved profiles drawn initially.
ProfileAlphabet ==
    {Profile("Wired connection 1", "ethernet", Eth0, a) : a \in BOOLEAN}
    \cup {Profile("home", "802-11-wireless", Wlan0, a) : a \in BOOLEAN}

\* Profile lists with distinct names.
ProfileLists ==
    {c \in SeqsUpTo(ProfileAlphabet, MaxLines) :
        \A i, j \in 1..Len(c) : i # j => c[i].name # c[j].name}

\* A host runs one network stack: the configuration of the two others is
\* absent.
InitHosts ==
    {Host(File(l), NoFile, {}, <<>>, 0) : l \in SeqsUpTo(DhcpcdAlphabet, MaxLines)}
    \cup {Host(NoFile, File(l), {}, <<>>, 0) : l \in SeqsUpTo(InterfacesAlphabet, MaxLines)}
    \cup {Host(NoFile, NoFile, {}, c, 0) : c \in ProfileLists}

InitStores ==
    {Store(EmptyCfg, CfgFile(FALSE, FALSE, EmptyCfg), {}),
     Store(EmptyCfg, CfgFile(TRUE, TRUE, Cfg(TRUE, 1, 0)), {})}

\* No method has been applied on its own.
NoCall == [fn |-> "", arg |-> <<>>, out |-> <<>>]

\* The message handled before the last one: its topic and payload, and the
\* host and the store it found.
NoBefore == [topic |-> "", p |-> EmptyObject, pre |-> <<>>, prest |-> <<>>]
Before(l) == [topic |-> l.topic, p |-> l.p, pre |-> l.pre, prest |-> l.prest]

NoLast(h, st) ==
    [topic |-> "", p |-> EmptyObject, env |-> Fine, trace |-> <<>>, escaped |-> FALSE,
     caught |-> FALSE, result |-> "none", pre |-> h, prest |-> st, before |-> NoBefore]

InitWith(hosts) ==
    /\ pc = "new"
    /\ network_method = "unset"
    /\ detect_runs = 0
    /\ probe = NoProbe
    /\ host \in hosts
    /\ store \in InitStores
    /\ last = NoLast(host, store)
    /\ handled = 0
    /\ call = NoCall

Init == InitWith(InitHosts)

\* --------------------------------------------------------------- actions
\* RPiConfigManager.__init__ with the probes answering p: detection runs
\* before the logger is assigned; then the config is loaded.
ConstructWith(p) ==
    LET d == detect_network_method(p, host.dh, host.ifc, FALSE) IN
    /\ pc = "new"
    /\ probe' = p
    /\ detect_runs' = detect_runs + 1
    /\ IF d.raised
       THEN /\ pc' = "crashed"
            /\ UNCHANGED <<network_method, store>>
       ELSE /\ pc' = "running"
            /\ network_method' = d.ret
            /\ store' = [store EXCEPT !.mem = load_config(store.disk)]
    /\ UNCHANGED <<host, last, handled, call>>

\* The probe answers drawn when the dispatcher is explored.
MainProbes ==
    {[NoProbe EXCEPT !.nm = "active"], [NoProbe EXCEPT !.dhcpcd = "active"],
     [NoProbe EXCEPT !.networkd = "active"], NoProbe, [NoProbe EXCEPT !.nm = "raise"]}

Construct == \E p \in MainProbes : ConstructWith(p)

\* Fault variant of the delivery: the handler detects the method again, with
\* whatever the probes answer at that moment.
DeliveredRedetecting(topic, p, e, o) ==
    /\ handled < MaxMsgs
    /\ host' = o.host
    /\ store' = o.store
    /\ last' = [topic |-> topic, p |-> p, env |-> e, trace |-> o.trace,
                escaped |-> o.raised, caught |-> o.caught, result |-> o.result,
                pre |-> host, prest |-> store,
                before |-> IF handled = 0 THEN NoBefore ELSE Before(last)]
    /\ pc' = IF o.raised THEN "dead" ELSE "running"
    /\ handled' = handled + 1
    /\ \E q \in MainProbes :
            /\ probe' = q
            /\ network_method' = detect_network_method(q, o.host.dh, o.host.ifc, TRUE).ret
    /\ detect_runs' = detect_runs + 1
    /\ UNCHANGED call

\* _on_message runs to completion on one message, with outcome o.  An
\* exception that leaves _on_message ends the delivery thread.
Handle(topic, p, e, o) ==
    /\ host' = o.host
    /\ store' = o.store
    /\ last' = [topic |-> topic, p |-> p, env |-> e, trace |-> o.trace,
                escaped |-> o.raised, caught |-> o.caught, result |-> o.result,
                pre |-> host, prest |-> store,
                before |-> IF handled = 0 THEN NoBefore ELSE Before(last)]
    /\ pc' = IF o.raised THEN "dead" ELSE "running"
    /\ handled' = handled + 1
    /\ UNCHANGED <<network_method, detect_runs, probe, call>>

\* The bus client delivers one message to _on_message.
Delivered(topic, p, e, o) == handled < MaxMsgs /\ Handle(topic, p, e, o)

Deliver(topic, p, e) ==
    Delivered(topic, p, e, on_message(network_method, host, store, topic, p, e))

ConfigGet == \E p \in NoArgPayloads :
        pc = "running" /\ Deliver("rpi/config/get", p, Fine)

ConfigSet ==
    \E p \in ConfigSetPayloads, s \in {"ok", "fail"} :
        pc = "running" /\ Deliver("rpi/config/set", p, [Fine EXCEPT !.save = s])

NetworkGet ==
    \E p \in NoArgPayloads, e \in ReadEnvs :
        pc = "running" /\ Deliver("rpi/network/get", p, e)

NetworkSet ==
    \E p \in NetworkSetPayloads, e \in NetworkEnvs :
        pc = "running" /\ Deliver("rpi/network/set", p, e)

\* Listings the scan command prints.
ScanFeeds ==
    {<<>>, <<Net("home", 40), Net("cafe", 70)>>,
     <<Net("home", -1), Net("home", 30), Net("", 50)>>}

WifiScan ==
    \E p \in NoArgPayloads, s \in BOOLEAN, f \in ScanFeeds :
        pc = "running"
        /\ Deliver("rpi/wifi/scan", p, [Fine EXCEPT !.scan = s, !.feed = f])

WifiConnect ==
    \E p \in WifiPayloads, e \in ConnectEnvs :
        pc = "running" /\ Deliver("rpi/wifi/connect", p, e)

WifiDisconnect ==
    \E p \in NoArgPayloads, e \in RadioEnvs :
        pc = "running" /\ Deliver("rpi/wifi/disconnect", p, e)

WifiDelete ==
    \E p \in WifiPayloads, e \in DeleteEnvs :
        pc = "running" /\ Deliver("rpi/wifi/delete", p, e)

WifiStatusGet ==
    \E p \in NoArgPayloads, e \in RadioEnvs :
        pc = "running" /\ Deliver("rpi/wifi/status/get", p, e)

\* A second of wall-clock time passes while the manager waits for a message.
Tick ==
    /\ pc = "running"
    /\ handled < MaxMsgs
    /\ host.now < MaxClock
    /\ host' = [host EXCEPT !.now = @ + 1]
    /\ UNCHANGED <<pc, network_method, detect_runs, probe, store, last, handled, call>>

Next ==
    \/ Construct
    \/ ConfigGet
    \/ ConfigSet
    \/ NetworkGet
    \/ NetworkSet
    \/ WifiScan
    \/ WifiConnect
    \/ WifiDisconnect
    \/ WifiDelete
    \/ WifiStatusGet
    \/ Tick

Spec == Init /\ [][Next]_vars


\* ------------------------------------------------- detection on its own
\* Lines of the interfaces files drawn when only detection is explored.
DetectAlphabet ==
    {Blank, Comment, IndentedComment, Line("iface", Eth0, "dhcp", <<>>, FALSE)}

\* Hosts on which either file may be present.
DetectHosts ==
    {Host(d, f, {}, <<>>, 0) :
        d \in {NoFile, File(<<>>)},
        f \in {NoFile} \cup {File(l) : l \in SeqsUpTo(DetectAlphabet, MaxLines)}}

InitDetect == InitWith(DetectHosts)

\* Construction with every combination of probe answers.
ConstructAny == \E p \in ProbeOutcomes : ConstructWith(p)

SpecDetect == InitDetect /\ [][ConstructAny]_vars

\* ------------------------------------------------- methods on their own
\* The state in which one method of a constructed manager is applied on its
\* own: to the arguments of one of calls, on one of hosts.
InitCall(hosts, calls) ==
    /\ pc = "running"
    /\ network_method = "interfaces"
    /\ detect_runs = 1
    /\ probe = NoProbe
    /\ host \in hosts
    /\ store = Store(EmptyCfg, CfgFile(FALSE, FALSE, EmptyCfg), {})
    /\ last = NoLast(host, store)
    /\ handled = 0
    /\ call \in calls

\* A call with arguments arg, not made yet.
Pending(arg) == [fn |-> "", arg |-> arg, out |-> <<>>]

\* Method fn returns out and leaves the manager as it was.
Returned(fn, out) ==
    /\ call' = [call EXCEPT !.fn = fn, !.out = out]
    /\ UNCHANGED <<pc, network_method, detect_runs, probe, host, store, last, handled>>

BareHost == Host(NoFile, NoFile, {}, <<>>, 0)

\* Fields drawn for a netmask; -1 stands for a field int() rejects.
MaskOctets == {-1, 0, 128, 254, 255, 256}

\* Netmasks drawn: every mask of four such fields, one of three fields and
\* one of five.
CodecMasks ==
    [1..4 -> MaskOctets] \cup {<<255, 255, 255>>, <<255, 255, 255, 0, 0>>}

CodecIps == {IpA, IpHigh, IpMalformed}
CodecGateways == {NoAddr, <<192, 168, 1, 1>>, <<192, 168, 1, 129>>, GwOutside, IpMalformed}

CodecCalls ==
    {Pending([static_ip |-> a, netmask |-> m, gateway |-> g]) :
        a \in CodecIps, m \in CodecMasks, g \in CodecGateways}

\* self._netmask_to_cidr(netmask)
NetmaskToCidr ==
    /\ call.fn = ""
    /\ Returned("_netmask_to_cidr", netmask_to_cidr(call.arg.netmask))

\* self._cidr_to_netmask(cidr) on the cidr the conversion has returned
CidrToNetmask ==
    /\ call.fn = "_netmask_to_cidr"
    /\ ~call.out.raised
    /\ Returned("_cidr_to_netmask", cidr_to_netmask(call.out.ret))

\* self._validate_network_config(static_ip, netmask, gateway)[0]
ValidateNetworkConfig ==
    /\ call.fn = ""
    /\ Returned("_validate_network_config",
                validate_network_config(call.arg.static_ip, call.arg.netmask,
                                        call.arg.gateway))

NextCodec == NetmaskToCidr \/ CidrToNetmask \/ ValidateNetworkConfig

SpecCodec == InitCall({BareHost}, CodecCalls) /\ [][NextCodec]_vars

\* --------------------------------------------- interfaces writers in turn
\* Calls made in a row when the writers are applied on their own.
MaxCalls == 2

\* Hosts of the interfaces backend.
InterfacesHosts ==
    {Host(NoFile, File(l), {}, <<>>, 0) : l \in SeqsUpTo(InterfacesAlphabet, MaxLines)}

\* Static requests as the handler passes them on, and the dhcp requests.
StaticRequests ==
    {Request(i, "static", a, <<255, 255, 255, 0>>, DefaultGateway(a), d) :
        i \in {Eth0, Eth1}, a \in {IpA, IpOther}, d \in {"", "8.8.8.8 8.8.4.4"}}
DhcpRequests == {Request(i, "dhcp", NoAddr, NoAddr, NoAddr, "") : i \in {Eth0, Eth1}}

WriteEnvs ==
    {Fine, [Fine EXCEPT !.writable = FALSE], [Fine EXCEPT !.restart = "fail"],
     [Fine EXCEPT !.restart = "raise"]}

\* Method fn, called with request r on the current host, has effect eff.
\* out.sofar: every earlier call of the row returned success.
Applied(fn, r, eff) ==
    /\ handled < MaxCalls
    /\ host' = eff.host
    /\ call' = [fn |-> fn, arg |-> [req |-> r, host |-> host],
                out |-> [ok |-> eff.ok, msg |-> eff.msg,
                         sofar |-> call.fn = "" \/ (call.out.ok /\ call.out.sofar)]]
    /\ handled' = handled + 1
    /\ UNCHANGED <<pc, network_method, detect_runs, probe, store, last>>

\* self.set_static_ip(interface, ip, netmask, gateway, dns)
SetStaticIp ==
    \E r \in StaticRequests, e \in WriteEnvs :
        pc = "running"
        /\ Applied("set_static_ip", r, set_static_ip(network_method, host, r, e))

\* self.set_dynamic_ip(interface)
SetDynamicIp ==
    \E r \in DhcpRequests, e \in WriteEnvs :
        pc = "running"
        /\ Applied("set_dynamic_ip", r, set_dynamic_ip(network_method, host, r, e))

NextInterfaces == SetStaticIp \/ SetDynamicIp

SpecInterfaces == InitCall(InterfacesHosts, {NoCall}) /\ [][NextInterfaces]_vars

\* ----------------------------------------------- WiFi disconnect in turn
\* Hosts of the NetworkManager backend.
ProfileHosts == {Host(NoFile, NoFile, {}, c, 0) : c \in ProfileLists}

\* self.disconnect_current_wifi(), with the answers e of nmcli
DisconnectCurrentWifi ==
    \E e \in RadioEnvs :
        pc = "running"
        /\ Applied("disconnect_current_wifi", e, disconnect_current_wifi(host, e))

SpecDisconnect == InitCall(ProfileHosts, {NoCall}) /\ [][DisconnectCurrentWifi]_vars

\* ------------------------------------------------------ scan on its own
\* Lines of a scan listing.
MaxFeed == 3

FeedAlphabet == {Net(s, g) : s \in {"", "home", "cafe"}, g \in {-1, 40, 70}}

ScanCalls ==
    {Pending([scan |-> s, feed |-> f]) :
        s \in BOOLEAN, f \in SeqsUpTo(FeedAlphabet, MaxFeed)}

\* self.scan_wifi(), the listing command answering as the arguments say
ScanWifi ==
    /\ call.fn = ""
    /\ Returned("scan_wifi",
                scan_wifi(host, [Fine EXCEPT !.scan = call.arg.scan,
                                             !.feed = call.arg.feed]))

SpecScan == InitCall({BareHost}, ScanCalls) /\ [][ScanWifi]_vars

\* ----------------------------------------------- dhcpcd reader on its own
\* Lines of the dhcpcd files drawn when the reader is applied on its own.
ReadAlphabet ==
    DhcpcdAlphabet
    \cup {Line("interface", n, "", <<>>, FALSE) : n \in {Wlan0, Eth1}}
    \cup {Line("static routers", NoName, "", GwOutside, FALSE),
          Line("static domain_name_servers", NoName, "8.8.8.8", <<>>, FALSE),
          Comment}

\* Hosts of the dhcpcd backend, the file missing or present.
DhcpcdHosts ==
    {Host(f, NoFile, {}, <<>>, 0) :
        f \in {NoFile} \cup {File(l) : l \in SeqsUpTo(ReadAlphabet, MaxLines)}}

\* self._read_dhcpcd_config()
ReadDhcpcdConfig ==
    /\ call.fn = ""
    /\ Returned("_read_dhcpcd_config", read_dhcpcd_config(host.dh))

SpecDhcpcdRead == InitCall(DhcpcdHosts, {NoCall}) /\ [][ReadDhcpcdConfig]_vars

\* ------------------------------------------- config messages in a row
\* Messages handled in a row when only the config topics are explored.
MaxTurns == 2

GetConfigInTurn ==
    \E p \in NoArgPayloads :
        /\ pc = "running"
        /\ handled < MaxTurns
        /\ Handle("rpi/config/get", p, Fine,
                  on_message(network_method, host, store, "rpi/config/get", p, Fine))

SetConfigInTurn ==
    \E p \in ConfigSetPayloads, e \in {Fine, [Fine EXCEPT !.save = "fail"]} :
        /\ pc = "running"
        /\ handled < MaxTurns
        /\ Handle("rpi/config/set", p, e,
                  on_message(network_method, host, store, "rpi/config/set", p, e))

NextConfig == Construct \/ GetConfigInTurn \/ SetConfigInTurn

SpecConfig == InitWith({BareHost}) /\ [][NextConfig]_vars

\* ------------------------------------------------------------- shutdown
\* The two programs between "self.running = True" in start() and the end of
\* the process.  call.arg names the program; call.out is the process:
\*   running   self.running
\*   main      where the main thread is: "wait" (a sleep of the loop of
\*             start), "capture", "stats", "publish", "error" (inside one
\*             capture iteration of the publisher), "returned" (start
\*             returned after the loop condition read the flag as false),
\*             "exiting" (SystemExit is leaving start), "ended"
\*   loop      the network loop thread of the bus client is running
\*   sensor    the thermal sensor is open (publisher)
\*   inflight  the events the handler running on the loop thread has still
\*             to perform (manager)
\*   done      the events performed since start, in order
\*   lost      the events of a handler that was in flight when the process
\*             ended, and that were never performed
\*   signals, turns   signals received, and handlers or iterations begun
MaxSignals == 2
MaxInflight == 1
MaxFrames == 2

Step(name) == Ev("step", name, 0, NoFields)

Started(prog) ==
    [fn |-> "start", arg |-> prog,
     out |-> [running |-> TRUE, main |-> IF prog = "pub" THEN "capture" ELSE "wait",
              loop |-> TRUE, sensor |-> prog = "pub", inflight |-> <<>>,
              done |-> <<>>, lost |-> <<>>, signals |-> 0,
              turns |-> IF prog = "pub" THEN 1 ELSE 0]]

\* signal_handler of the manager module, installed for SIGINT: sys.exit(0)
\* raises SystemExit in the main thread.  self.running is not touched and
\* stop() is not called.
signal_handler(P) == [P EXCEPT !.main = "exiting", !.signals = @ + 1]

\* ThermalMQTTPublisher.stop
stop(P) ==
    [P EXCEPT !.running = FALSE,
              !.done = IF P.loop THEN Append(@, Step("publish_device_status offline"))
                       ELSE @,
              !.sensor = FALSE,
              !.loop = FALSE]

\* ThermalMQTTPublisher._signal_handler, installed for SIGINT and SIGTERM.
\* It runs on the main thread on top of whatever start() was doing, which
\* resumes when it returns.
publisher_signal_handler(P) == [stop(P) EXCEPT !.signals = @ + 1]

\* One step of a capture iteration of the publisher, the sensor or the
\* statistics answering (ok) or not.
capture_step(P, ok) ==
    CASE P.main = "capture" ->
            [P EXCEPT !.main = IF ok THEN "stats" ELSE "error",
                      !.done = Append(@, Step("capture_frame"))]
      [] P.main = "stats" ->
            [P EXCEPT !.main = IF ok THEN "publish" ELSE "error",
                      !.done = Append(@, Step("get_thermal_stats"))]
      [] P.main = "publish" ->
            [P EXCEPT !.main = "wait",
                      !.done = Append(@, Step("_publish_thermal_data"))]
      [] P.main = "error" ->
            [P EXCEPT !.main = "wait", !.done = Append(@, Step("_publish_error"))]

\* "while self.running:" read after a sleep of the loop of start().
loop_test(prog, P) ==
    IF ~P.running THEN [P EXCEPT !.main = "returned"]
    ELSE IF prog = "pub" THEN [P EXCEPT !.main = "capture", !.turns = @ + 1]
    ELSE P

Process(P) ==
    /\ call' = [call EXCEPT !.out = P]
    /\ UNCHANGED <<pc, network_method, detect_runs, probe, store, last, handled>>

\* SIGINT reaches the manager while its main thread sleeps in the loop.
ManagerSignal ==
    /\ pc = "running" /\ call.arg = "rpi_config_manager"
    /\ call.out.main = "wait" /\ call.out.signals < MaxSignals
    /\ Process(signal_handler(call.out))
    /\ UNCHANGED host

\* SIGINT or SIGTERM reaches the publisher, inside an iteration or between
\* two.
PublisherSignal ==
    /\ pc = "running" /\ call.arg = "pub"
    /\ call.out.main \in {"capture", "stats", "publish", "error", "wait"}
    /\ call.out.signals < MaxSignals
    /\ Process(publisher_signal_handler(call.out))
    /\ UNCHANGED host

CaptureStep ==
    \E ok \in BOOLEAN :
        /\ pc = "running" /\ call.arg = "pub"
        /\ call.out.main \in {"capture", "stats", "publish", "error"}
        /\ Process(capture_step(call.out, ok))
        /\ UNCHANGED host

\* A sleep of the loop of start() ends and the loop condition is read.
LoopTest ==
    /\ pc = "running"
    /\ call.out.main = "wait"
    /\ call.out.running => (host.now < MaxClock /\ call.out.turns < MaxFrames)
    /\ Process(loop_test(call.arg, call.out))
    /\ host' = IF call.out.running THEN [host EXCEPT !.now = @ + 1] ELSE host

\* The loop thread of the manager takes a message and enters _on_message,
\* which will perform the events of trace.
Entered(trace) ==
    /\ call.out.turns < MaxInflight
    /\ Process([call.out EXCEPT !.inflight = trace, !.turns = @ + 1])
    /\ UNCHANGED host

ManagerReceives ==
    \E p \in NetworkSetPayloads :
        /\ pc = "running" /\ call.arg = "rpi_config_manager"
        /\ call.out.main = "wait" /\ call.out.inflight = <<>>
        /\ Entered(on_message(network_method, host, store, "rpi/network/set", p, Fine).trace)

\* The handler in flight performs its next event.  The loop thread is a
\* daemon thread: it runs on while SystemExit unwinds the main thread, until
\* the interpreter ends.
HandlerStep ==
    /\ pc = "running" /\ call.arg = "rpi_config_manager"
    /\ call.out.main \in {"wait", "exiting"}
    /\ call.out.inflight # <<>>
    /\ Process([call.out EXCEPT !.inflight = Tail(@),
                                !.done = Append(@, Head(call.out.inflight))])
    /\ UNCHANGED host

\* The interpreter ends: after start() returned to main(), or when
\* SystemExit has left main().  Daemon threads are not waited for.
ProcessEnds ==
    /\ pc = "running"
    /\ call.out.main \in {"returned", "exiting"}
    /\ Process([call.out EXCEPT !.main = "ended", !.loop = FALSE, !.inflight = <<>>,
                                !.lost = call.out.inflight])
    /\ UNCHANGED host

ShutdownHosts == {h \in InterfacesHosts : Len(h.ifc.lines) = MaxLines}

InitShutdown ==
    /\ InitCall(ShutdownHosts \cup {BareHost}, {Started("rpi_config_manager"), Started("pub")})
    /\ (call.arg = "pub") = (host = BareHost)

NextShutdown ==
    \/ ManagerSignal \/ PublisherSignal \/ CaptureStep \/ LoopTest
    \/ ManagerReceives \/ HandlerStep \/ ProcessEnds

SpecShutdown == InitShutdown /\ [][NextShutdown]_vars

\* ------------------------------------------------ dhcpcd writers in turn
\* The state in which methods of a manager that detected method are applied
\* on their own.
InitCallOn(method, hosts, calls) ==
    /\ pc = "running"
    /\ network_method = method
    /\ detect_runs = 1
    /\ probe = NoProbe
    /\ host \in hosts
    /\ store = Store(EmptyCfg, CfgFile(FALSE, FALSE, EmptyCfg), {})
    /\ last = NoLast(host, store)
    /\ handled = 0
    /\ call \in calls

\* Hosts of the dhcpcd backend: eth0, its VLAN eth0.10, an address line and
\* a global option line in every order.
DhcpcdWriteAlphabet ==
    DhcpcdAlphabet \cup {Line("interface", Eth0Vlan, "", <<>>, FALSE)}

DhcpcdWriteHosts ==
    {Host(File(l), NoFile, {}, <<>>, 0) : l \in SeqsUpTo(DhcpcdWriteAlphabet, MaxLines)}

WrittenInterfaces == {Eth0, Eth0Vlan, Eth1}

DhcpcdStaticRequests ==
    {Request(i, "static", a, <<255, 255, 255, 0>>, DefaultGateway(a), d) :
        i \in WrittenInterfaces, a \in {IpA, IpOther}, d \in {"", "8.8.8.8 8.8.4.4"}}
DhcpcdDhcpRequests ==
    {Request(i, "dhcp", NoAddr, NoAddr, NoAddr, "") : i \in WrittenInterfaces}

DhcpcdEnvs == {Fine, [Fine EXCEPT !.writable = FALSE], [Fine EXCEPT !.restart = "fail"]}

\* No write was made yet.
NoWrites == [fn |-> "", arg |-> <<>>, out |-> [latest |-> <<>>]]

\* The dhcpcd file was rewritten in the course of trace.
Rewrote(trace) == \E i \in DOMAIN trace : trace[i] = Wrote("dhcpcd")

\* Method fn, called with request r while the external steps answer e, has
\* effect eff.  out.latest: for each interface, the request of the last call
\* for it that rewrote the file.
Written(fn, r, e, eff) ==
    /\ handled < MaxCalls
    /\ host' = eff.host
    /\ call' = [fn |-> fn, arg |-> [req |-> r, host |-> host, env |-> e],
                out |-> [ok |-> eff.ok, msg |-> eff.msg, trace |-> eff.trace,
                         latest |-> IF Rewrote(eff.trace)
                                    THEN Put(call.out.latest, r.interface, r)
                                    ELSE call.out.latest]]
    /\ handled' = handled + 1
    /\ UNCHANGED <<pc, network_method, detect_runs, probe, store, last>>

\* self.set_static_ip(interface, ip, netmask, gateway, dns) on dhcpcd
DhcpcdSetStatic ==
    \E r \in DhcpcdStaticRequests, e \in DhcpcdEnvs :
        pc = "running"
        /\ Written("set_static_ip", r, e, set_static_ip(network_method, host, r, e))

\* self.set_dynamic_ip(interface) on dhcpcd
DhcpcdSetDynamic ==
    \E r \in DhcpcdDhcpRequests, e \in DhcpcdEnvs :
        pc = "running"
        /\ Written("set_dynamic_ip", r, e, set_dynamic_ip(network_method, host, r, e))

NextDhcpcd == DhcpcdSetStatic \/ DhcpcdSetDynamic

SpecDhcpcd == InitCallOn("dhcpcd", DhcpcdWriteHosts, {NoWrites}) /\ [][NextDhcpcd]_vars

\* ------------------------------------------------ WiFi messages in a row
\* self.connect_wifi through its handler, on hosts with distinct profiles
WifiConnectInTurn ==
    \E p \in WifiPayloads, e \in ConnectEnvs :
        /\ pc = "running"
        /\ handled < MaxTurns
        /\ Handle("rpi/wifi/connect", p, e,
                  on_message(network_method, host, store, "rpi/wifi/connect", p, e))

SpecConnect == InitCallOn("networkmanager", ProfileHosts, {NoCall}) /\ [][WifiConnectInTurn]_vars

\* Hosts whose saved connections may share a name.
SavedLists == SeqsUpTo(ProfileAlphabet, MaxLines)
SavedHosts == {Host(NoFile, NoFile, {}, c, 0) : c \in SavedLists}

\* Delete requests: the WiFi payloads and one whose ssid is the name of the
\* saved ethernet profile.
DeletePayloads == WifiPayloads \cup {[EmptyObject EXCEPT !.ssid = "Wired connection 1"]}

\* self.delete_wifi through its handler
WifiDeleteInTurn ==
    \E p \in DeletePayloads, e \in DeleteEnvs :
        /\ pc = "running"
        /\ handled < MaxTurns
        /\ Handle("rpi/wifi/delete", p, e,
                  on_message(network_method, host, store, "rpi/wifi/delete", p, e))

SpecDelete == InitCallOn("networkmanager", SavedHosts, {NoCall}) /\ [][WifiDeleteInTurn]_vars

\* ------------------------------------------------ capture loop of pub.py
\* Iterations of the loop of start() in one behaviour.
MaxIterations == 16

\* max_errors of start()
max_errors == 10

\* min(a, b)
Min(a, b) == IF a <= b THEN a ELSE b

\* The locals of start() and what the last iteration of its loop did:
\* whether a frame with statistics was captured, whether the sensor was
\* restarted ("none": no attempt) and the length of the sleep of the except
\* clause.
Loop(errors, frames, captured, restart, sleep) ==
    [error_count |-> errors, frame_count |-> frames, captured |-> captured,
     restart |-> restart, sleep |-> sleep]

\* Fault variant of the loop body: a captured frame leaves error_count as
\* it is.
capture_iteration_keeping_count(L, frame, stats, sent, restarted) ==
    IF frame /\ stats
    THEN Loop(L.error_count, IF sent THEN L.frame_count + 1 ELSE L.frame_count,
              TRUE, "none", 0)
    ELSE IF L.error_count + 1 >= max_errors
    THEN (IF restarted THEN Loop(0, L.frame_count, FALSE, "ok", 0)
          ELSE Loop(max_errors \div 2, L.frame_count, FALSE, "fail",
                    Min(2 * (max_errors \div 2), 10)))
    ELSE Loop(L.error_count + 1, L.frame_count, FALSE, "none",
              Min(2 * (L.error_count + 1), 10))

\* One iteration of "while self.running:" in start().  frame: capture_frame
\* returns a frame (it returns None or raises otherwise); stats:
\* get_thermal_stats returns statistics; sent: both brokers accept the
\* frame, which _publish_thermal_data counts; restarted: the value of
\* restart_sensor().
capture_iteration(L, frame, stats, sent, restarted) ==
    IF frame /\ stats
    THEN Loop(0, IF sent THEN L.frame_count + 1 ELSE L.frame_count, TRUE, "none", 0)
    ELSE IF L.error_count + 1 >= max_errors
    THEN (IF restarted THEN Loop(0, L.frame_count, FALSE, "ok", 0)
          ELSE Loop(max_errors \div 2, L.frame_count, FALSE, "fail",
                    Min(2 * (max_errors \div 2), 10)))
    ELSE Loop(L.error_count + 1, L.frame_count, FALSE, "none",
              Min(2 * (L.error_count + 1), 10))

\* start() has set error_count = 0 and frame_count = 0 and enters its loop.
\* Next to the loop, the call records the iterations made (turns), the
\* error_count the last iteration found (prev), the errors in a row since the
\* last captured frame or restart attempt (since), the outcome of the last
\* restart attempt when no frame was captured after it (prior) and the
\* restart attempts made (restarts).
Capturing ==
    [fn |-> "start", arg |-> "pub",
     out |-> [loop |-> Loop(0, 0, FALSE, "none", 0), turns |-> 0, prev |-> 0,
              since |-> 0, prior |-> "none", restarts |-> 0]]

Iterated(L) ==
    /\ call.out.turns < MaxIterations
    /\ call' = [call EXCEPT
                 !.out = [loop |-> L, turns |-> call.out.turns + 1,
                          prev |-> call.out.loop.error_count,
                          since |-> IF L.captured \/ L.restart # "none" THEN 0
                                    ELSE call.out.since + 1,
                          prior |-> IF L.captured THEN "none"
                                    ELSE IF L.restart # "none" THEN L.restart
                                    ELSE call.out.prior,
                          restarts |-> IF L.restart # "none"
                                       THEN call.out.restarts + 1
                                       ELSE call.out.restarts]]
    /\ UNCHANGED <<pc, network_method, detect_runs, probe, host, store, last, handled>>

\* The body of the loop of start() runs once.
CaptureIteration ==
    \E frame \in BOOLEAN, stats \in BOOLEAN, sent \in BOOLEAN, restarted \in BOOLEAN :
        /\ pc = "running"
        /\ Iterated(capture_iteration(call.out.loop, frame, stats, sent, restarted))

SpecCapture == InitCall({BareHost}, {Capturing}) /\ [][CaptureIteration]_vars

\* ------------------------------------------------------------ properties
\* The responses among the events of a trace, in order.
Pubs(trace) == SelectSeq(trace, LAMBDA ev : ev.t = "pub")

\* The response topic paired with a request topic.
Paired(topic) ==
    IF topic \in {"rpi/config/get", "rpi/config/set"} THEN "rpi/config/response"
    ELSE IF topic \in {"rpi/network/get", "rpi/network/set"} THEN "rpi/network/response"
    ELSE IF topic = "rpi/wifi/scan" THEN "rpi/wifi/scan_response"
    ELSE IF topic = "rpi/wifi/connect" THEN "rpi/wifi/connect_response"
    ELSE IF topic = "rpi/wifi/disconnect" THEN "rpi/wifi/disconnect_response"
    ELSE IF topic = "rpi/wifi/delete" THEN "rpi/wifi/delete_response"
    ELSE "rpi/wifi/status/response"

\* C1: every handled message is answered by exactly one response, published
\* on the response topic paired with the request topic.
C1_OneResponseOnPairedTopic ==
    handled > 0 =>
        /\ Len(Pubs(last.trace)) = 1
        /\ Pubs(last.trace)[1].name = Paired(last.topic)

ModifiedNotReactivated ==
    /\ handled > 0
    /\ network_method = "networkmanager"
    /\ last.topic = "rpi/network/set"
    /\ \E i \in DOMAIN last.trace : last.trace[i] = Cmd("nmcli con down")
    /\ ~last.env.down \/ ~last.env.up

\* C3: a modification that went through followed by a failed reactivation is
\* answered with a status that is neither "success" nor "error".
C3_PartialSuccessIsDistinct ==
    ModifiedNotReactivated =>
        /\ Pubs(last.trace) # <<>>
        /\ Pubs(last.trace)[1].f.status \notin {"success", "error"}

\* The content of a network file on a host.
NetFile(h, name) == IF name = "dhcpcd" THEN h.dh ELSE h.ifc

\* C4: every rewrite of the dhcpcd file or of the interfaces file comes after
\* a backup, taken in the same operation, of the content the file had before.
C4_BackupBeforeRewrite ==
    \A i \in DOMAIN last.trace :
        (last.trace[i].t = "write" /\ last.trace[i].name \in {"dhcpcd", "interfaces"}) =>
            \E j \in 1..(i - 1) :
                /\ last.trace[j].t = "backup"
                /\ last.trace[j].name = last.trace[i].name
                /\ [file |-> last.trace[i].name, ts |-> last.trace[j].ts,
                    content |-> NetFile(last.pre, last.trace[i].name)] \in host.bk

\* The last message was a static network set that reported success.
StaticSetSucceeded ==
    /\ handled > 0
    /\ last.topic = "rpi/network/set"
    /\ last.p.enc = "object"
    /\ last.p.method = "static"
    /\ last.result = "ok"

\* C5: after a static set that reported success, reading the configuration
\* back gives an entry for the interface with method static and the
\* requested address, netmask (or prefix length) and gateway.
C5_StaticReadBack ==
    StaticSetSucceeded =>
        LET r == NetworkRequest(last.p)
            rd == read_current_ip_config(network_method, host, Fine) IN
        /\ rd.ok
        /\ r.interface \in DOMAIN rd.ifs
        /\ rd.ifs[r.interface].method = "static"
        /\ rd.ifs[r.interface].address = r.static_ip
        /\ \/ rd.ifs[r.interface].netmask = r.netmask
           \/ rd.ifs[r.interface].cidr = netmask_to_cidr(r.netmask).ret
        /\ rd.ifs[r.interface].gateway = r.gateway

\* The lines of an interfaces file outside the stanza of target: every line
\* but the target's iface line and the option lines that follow it up to the
\* next auto or iface line.
RECURSIVE OutsideStanza(_, _, _)
OutsideStanza(lines, target, inside) ==
    IF lines = <<>> THEN <<>>
    ELSE LET l == Head(lines) IN
         IF l.k = "iface" /\ l.name = target
         THEN OutsideStanza(Tail(lines), target, TRUE)
         ELSE IF l.k \in {"iface", "auto"}
         THEN <<l>> \o OutsideStanza(Tail(lines), target, FALSE)
         ELSE IF inside /\ l.k \notin {"blank", "comment"}
         THEN OutsideStanza(Tail(lines), target, TRUE)
         ELSE <<l>> \o OutsideStanza(Tail(lines), target, inside)

\* C6: a rewrite of the interfaces file leaves the lines outside the target's
\* stanza as they were, in the same order.
C6_OutsideStanzaUntouched ==
    (/\ handled > 0
     /\ network_method = "interfaces"
     /\ last.topic = "rpi/network/set"
     /\ \E i \in DOMAIN last.trace : last.trace[i] = Wrote("interfaces")) =>
        OutsideStanza(host.ifc.lines, NetworkRequest(last.p).interface, FALSE)
            = OutsideStanza(last.pre.ifc.lines, NetworkRequest(last.p).interface, FALSE)

\* A line that is neither blank nor a comment.
HasConfigLine(lines) == \E i \in DOMAIN lines : lines[i].k \notin {"blank", "comment"}

\* The method the priority order gives when probes that raise count as
\* failed.
PriorityResult ==
    IF probe.nm = "active" THEN "networkmanager"
    ELSE IF host.dh.exists /\ probe.dhcpcd = "active" THEN "dhcpcd"
    ELSE IF probe.networkd = "active" THEN "systemd-networkd"
    ELSE IF host.ifc.exists /\ probe.ifread = "ok" /\ HasConfigLine(host.ifc.lines)
    THEN "interfaces"
    ELSE "networkmanager"

\* C7: after a construction in which no probe raised, the method is the one
\* the priority order gives: NetworkManager active, else dhcpcd file present
\* and service active, else systemd-networkd active, else an interfaces file
\* with a line that is neither blank nor a comment, else the default.
C7_DetectionPriority ==
    pc = "running" => network_method = PriorityResult

\* C8: construction completes whatever the probes do, and a probe that
\* raises counts as failed: the next probes still decide the method.
C8_ProbeFailureTolerated ==
    /\ pc # "crashed"
    /\ pc = "running" => network_method = PriorityResult

\* Two hosts with the same files, backups and profiles: they differ at most
\* in the time of day.
SameConfiguration(a, b) ==
    a.dh = b.dh /\ a.ifc = b.ifc /\ a.bk = b.bk /\ a.nm = b.nm

\* C9: once the manager is constructed, no step changes network_method or
\* runs the detection again.
C9_MethodFixedAfterConstruction ==
    [][pc # "new" => (network_method' = network_method /\ detect_runs' = detect_runs)]_vars

\* C9 witness: a network change went through on a constructed manager, and
\* the detection has run once.
C9_Witness ==
    /\ handled > 0
    /\ last.topic = "rpi/network/set"
    /\ last.result = "ok"
    /\ ~SameConfiguration(host, last.pre)
    /\ detect_runs = 1

\* The events of a trace that write a file or run a command.
SideEffects(trace) == SelectSeq(trace, LAMBDA ev : ev.t \in {"write", "backup", "cmd"})

\* C10: with method systemd-networkd the reader and both writers fail with
\* the unsupported-method message and change nothing, a network get or set
\* writes no file and runs no command, and every response has status error.
C10_UnsupportedMethodFails ==
    (/\ handled > 0
     /\ network_method = "systemd-networkd"
     /\ last.topic \in {"rpi/network/get", "rpi/network/set"}) =>
        /\ read_current_ip_config(network_method, last.pre, last.env)
            = ReadFail("Unsupported network method")
        /\ set_static_ip(network_method, last.pre, NetworkRequest(last.p), last.env)
            = Failure("Unsupported network method", last.pre)
        /\ set_dynamic_ip(network_method, last.pre, NetworkRequest(last.p), last.env)
            = Failure("Unsupported network method", last.pre)
        /\ SideEffects(last.trace) = <<>>
        /\ SameConfiguration(host, last.pre)
        /\ Len(Pubs(last.trace)) = 1
        /\ Pubs(last.trace)[1].f.status = "error"

\* C10 witness: a well-formed static request was handled on a host detected
\* as systemd-networkd.
C10_Witness ==
    /\ handled > 0
    /\ network_method = "systemd-networkd"
    /\ last.topic = "rpi/network/set"
    /\ last.p.enc = "object"
    /\ last.p.method = "static"
    /\ last.p.static_ip = IpA
    /\ last.result = "fail"

\* ----------------------------------------------------------------- codec
\* Bit b (0 = lowest) of an octet is set.
SetBit(octet, b) == (octet \div Pow2(b)) % 2 = 1

\* The number of set bits over the fields of a mask.
SetBitCount(m) == Cardinality({x \in (1..Len(m)) \X (0..7) : SetBit(m[x[1]], x[2])})

\* A mask of four octets in 0..255.
FourOctets(m) == Len(m) = 4 /\ \A i \in 1..4 : m[i] >= 0 /\ m[i] <= 255

\* C11: for every netmask that _netmask_to_cidr accepts, converting the
\* returned prefix length back with _cidr_to_netmask gives the netmask again.
C11_RoundTrip ==
    call.fn = "_cidr_to_netmask" => call.out = call.arg.netmask

\* C12: _netmask_to_cidr raises for a mask that has not exactly four
\* octets, has an octet outside 0..255 or has fewer than 8 or more than 30 set
\* bits, and returns the number of set bits for every other mask.
C12_NetmaskToCidrDomain ==
    call.fn = "_netmask_to_cidr" =>
        IF FourOctets(call.arg.netmask) /\ SetBitCount(call.arg.netmask) \in 8..30
        THEN call.out = Ret(SetBitCount(call.arg.netmask))
        ELSE call.out.raised

\* A mask of four valid octets is rejected for its 31 or 32 set bits.
C12_Witness ==
    /\ call.fn = "_netmask_to_cidr"
    /\ FourOctets(call.arg.netmask)
    /\ SetBitCount(call.arg.netmask) > 30
    /\ call.out.raised

\* Bit k (1 = highest) of a four-octet address.
AddrBit(a, k) == (a[((k - 1) \div 8) + 1] \div Pow2(7 - ((k - 1) % 8))) % 2

\* Address gw is a member of the network of ip under a prefix of cidr bits.
Member(gw, ip, cidr) ==
    IsIPv4(gw) /\ \A k \in 1..cidr : AddrBit(gw, k) = AddrBit(ip, k)

\* C13: for a valid address and an accepted netmask, _validate_network_config
\* succeeds exactly when no gateway is supplied or the supplied gateway is a
\* member of the network of the address under the netmask's prefix length.
C13_GatewayMembership ==
    (/\ call.fn = "_validate_network_config"
     /\ IsIPv4(call.arg.static_ip)
     /\ FourOctets(call.arg.netmask)
     /\ SetBitCount(call.arg.netmask) \in 8..30) =>
        (call.out <=> (\/ call.arg.gateway = NoAddr
                       \/ Member(call.arg.gateway, call.arg.static_ip,
                                 SetBitCount(call.arg.netmask))))

\* A well-formed gateway outside a /25 network is refused.
C13_Witness ==
    /\ call.fn = "_validate_network_config"
    /\ call.arg.static_ip = IpHigh
    /\ call.arg.netmask = MaskHalf
    /\ call.arg.gateway = <<192, 168, 1, 1>>
    /\ call.out = FALSE

\* ------------------------------------------------------ derived gateway
\* C14: a static request with a four-octet address, an accepted netmask
\* (or none) and no gateway is answered with the gateway a.b.c.1 and is not
\* refused by the validation of the network configuration.
C14_DerivedGatewayAccepted ==
    (/\ last.topic = "rpi/network/set"
     /\ last.p.enc = "object"
     /\ last.p.method = "static"
     /\ IsIPv4(last.p.static_ip)
     /\ last.p.gateway = NoAddr
     /\ \/ last.p.netmask = AbsentAddr
        \/ FourOctets(last.p.netmask) /\ SetBitCount(last.p.netmask) \in 8..30) =>
        /\ Len(Pubs(last.trace)) = 1
        /\ Pubs(last.trace)[1].f.gateway = SubSeq(last.p.static_ip, 1, 3) \o <<1>>
        /\ Pubs(last.trace)[1].f.err # "Invalid network config"

\* ------------------------------------------------------ stanza contents
\* The stanzas of interface x in an interfaces file: its iface lines and the
\* lines that follow each of them up to the next iface or auto line.
RECURSIVE StanzaOf(_, _, _)
StanzaOf(lines, x, inside) ==
    IF lines = <<>> THEN <<>>
    ELSE LET l == Head(lines) IN
         IF l.k = "iface"
         THEN (IF l.name = x THEN <<l>> ELSE <<>>) \o StanzaOf(Tail(lines), x, l.name = x)
         ELSE IF l.k = "auto" THEN StanzaOf(Tail(lines), x, FALSE)
         ELSE (IF inside THEN <<l>> ELSE <<>>) \o StanzaOf(Tail(lines), x, inside)

\* The arguments of the lines of keyword k in a stanza, in order.
Values(stanza, k) ==
    LET ls == SelectSeq(stanza, LAMBDA l : l.k = k) IN
    [i \in DOMAIN ls |-> IF k = "iface" THEN ls[i].arg ELSE ls[i].addr]

\* The last call is a write that returned success, as every call before it,
\* for an interface that had an iface line in the file.
WroteStanza ==
    /\ call.fn \in {"set_static_ip", "set_dynamic_ip"}
    /\ call.out.ok
    /\ call.out.sofar
    /\ \E i \in DOMAIN call.arg.host.ifc.lines :
            /\ call.arg.host.ifc.lines[i].k = "iface"
            /\ call.arg.host.ifc.lines[i].name = call.arg.req.interface

\* C15: on the interfaces backend, after successful static and dhcp writes
\* for an interface that has an iface line, the interface's stanza carries
\* the last requested method on its iface line and holds exactly one
\* address, netmask and gateway line with the last requested values if that
\* method is static, and none of them if it is dhcp.
C15_StanzaReflectsLastRequest ==
    WroteStanza =>
        LET r == call.arg.req
            st == StanzaOf(host.ifc.lines, r.interface, FALSE) IN
        /\ \A i \in DOMAIN Values(st, "iface") : Values(st, "iface")[i] = r.method
        /\ Values(st, "address") = (IF r.method = "static" THEN <<r.static_ip>> ELSE <<>>)
        /\ Values(st, "netmask") = (IF r.method = "static" THEN <<r.netmask>> ELSE <<>>)
        /\ Values(st, "gateway") = (IF r.method = "static" THEN <<r.gateway>> ELSE <<>>)

\* ------------------------------------------------------ WiFi disconnect
\* C16: where nmcli runs and answers a disconnect of an idle device with a
\* "not connected" error, every call of disconnect_current_wifi reports
\* success, the second call of a row as well as the first, and a call on an
\* idle device leaves the profiles as they are.
C16_DisconnectIdempotent ==
    (/\ call.fn = "disconnect_current_wifi"
     /\ call.arg.req.tool
     /\ call.arg.req.notconn) =>
        /\ call.out.ok
        /\ WifiActive(host.nm) = 0
        /\ WifiActive(call.arg.host.nm) = 0 => host.nm = call.arg.host.nm

\* The second call of a row finds the device idle after the first call has
\* disconnected it, and reports success.
C16_Witness ==
    /\ call.fn = "disconnect_current_wifi"
    /\ handled = 2
    /\ call.out.sofar
    /\ call.out.ok
    /\ WifiActive(call.arg.host.nm) = 0
    /\ \E i \in DOMAIN host.nm : host.nm[i].ifname = Wlan0

\* ------------------------------------------------------------ WiFi scan
\* The numeric signal of a listed network; a field that is no number counts
\* as 0.
Numeric(n) == IF n.signal < 0 THEN 0 ELSE n.signal

\* C17: whatever the listing command prints, scan_wifi returns each SSID at
\* most once, the entry it keeps for an SSID is the first line of that SSID
\* in the listing, and the entries are in order of non-increasing signal.
C17_ScanDedupSorted ==
    call.fn = "scan_wifi" =>
        /\ \A i, j \in DOMAIN call.out : i # j => call.out[i].ssid # call.out[j].ssid
        /\ \A i \in DOMAIN call.out :
                \E k \in DOMAIN call.arg.feed :
                    /\ call.arg.feed[k] = call.out[i]
                    /\ \A m \in 1..(k - 1) : call.arg.feed[m].ssid # call.out[i].ssid
        /\ \A i \in 1..(Len(call.out) - 1) : Numeric(call.out[i]) >= Numeric(call.out[i + 1])

\* A listing that names an SSID twice and is not in order of signal.
C17_Witness ==
    /\ call.fn = "scan_wifi"
    /\ call.arg.feed = <<Net("home", 40), Net("cafe", 70), Net("home", 70)>>
    /\ call.out = <<Net("cafe", 70), Net("home", 40)>>

\* -------------------------------------------------------- dhcpcd reader
\* Interface x is named by an "interface" line of the dhcpcd file.
Mentioned(file, x) ==
    file.exists /\ \E i \in DOMAIN file.lines :
                        file.lines[i].k = "interface" /\ file.lines[i].name = x

\* C18: whatever the dhcpcd file holds, or when it is missing, a successful
\* _read_dhcpcd_config has an entry for eth0 and one for wlan0, and reports
\* an interface that no "interface" line names with method dhcp.
C18_CommonInterfacesPresent ==
    (call.fn = "_read_dhcpcd_config" /\ call.out.ok) =>
        /\ {Eth0, Wlan0} \subseteq DOMAIN call.out.ifs
        /\ \A x \in DOMAIN call.out.ifs :
                ~Mentioned(host.dh, x) => call.out.ifs[x] = DhcpEntry

\* The file names eth0 only: wlan0 is added with method dhcp.
C18_Witness ==
    /\ call.fn = "_read_dhcpcd_config"
    /\ call.out.ok
    /\ Mentioned(host.dh, Eth0)
    /\ ~Mentioned(host.dh, Wlan0)
    /\ call.out.ifs[Eth0].method = "static"
    /\ call.out.ifs[Wlan0].method = "dhcp"

\* -------------------------------------------------- missing config field
\* A rpi/config/set message whose JSON object has no 'config' key.
MissingConfig(topic, p) == topic = "rpi/config/set" /\ p.enc = "object" /\ ~p.has_config

\* C19: a rpi/config/set message without the 'config' key is answered on
\* rpi/config/response with status error and a message that names the
\* missing field, and the message that follows it is handled as if the
\* faulty one had never arrived.
C19_MissingConfigField ==
    /\ MissingConfig(last.topic, last.p) =>
            /\ Len(Pubs(last.trace)) = 1
            /\ Pubs(last.trace)[1].name = "rpi/config/response"
            /\ Pubs(last.trace)[1].f.status = "error"
            /\ Pubs(last.trace)[1].f.err = "Missing 'config' field"
            /\ pc = "running"
    /\ (handled >= 2 /\ MissingConfig(last.before.topic, last.before.p)) =>
            /\ last.trace = on_message(network_method, last.before.pre, last.before.prest,
                                       last.topic, last.p, last.env).trace
            /\ store = on_message(network_method, last.before.pre, last.before.prest,
                                  last.topic, last.p, last.env).store
            /\ ~last.escaped

\* A valid config is stored by the message that follows the faulty one.
C19_Witness ==
    /\ handled = 2
    /\ MissingConfig(last.before.topic, last.before.p)
    /\ last.topic = "rpi/config/set"
    /\ last.result = "ok"
    /\ last.p.cfg = Cfg(TRUE, 1, 1)
    /\ store.mem = last.p.cfg

\* ------------------------------------------------------ response fields
\* C20: every response published, on whichever response topic and on the
\* success and the error paths alike, carries the fields status, timestamp
\* and device_id, and its status is success, error or partial_error.
C20_ResponseFields ==
    \A i \in DOMAIN Pubs(last.trace) :
        /\ Pubs(last.trace)[i].f.status \in {"success", "error", "partial_error"}
        /\ Pubs(last.trace)[i].f.ts
        /\ Pubs(last.trace)[i].f.devid

\* The except branch of a WiFi handler has published its error response,
\* whose data carries no timestamp of its own.
C20_Witness ==
    /\ last.topic = "rpi/wifi/connect"
    /\ last.caught
    /\ Len(Pubs(last.trace)) = 1
    /\ Pubs(last.trace)[1].name = "rpi/wifi/connect_response"
    /\ Pubs(last.trace)[1].f.status = "error"
    /\ Pubs(last.trace)[1].f.ts

\* C21: shutdown is cooperative.  Once a shutdown signal has arrived the
\* running flag is cleared; no event of a handler or capture iteration that
\* was in flight is lost; and the process ends only after the loop of start()
\* read the cleared flag, never by an exit raised from the signal handler.
C21_CooperativeShutdown ==
    call.fn = "start" =>
        /\ call.out.signals > 0 => ~call.out.running
        /\ call.out.lost = <<>>
        /\ call.out.main # "exiting"
        /\ call.out.main = "ended" => ~call.out.running

\* The last message was a static network set, on one of the three backends,
\* whose address, netmask and gateway do not pass _validate_network_config.
InvalidStaticRequest ==
    /\ handled > 0
    /\ last.topic = "rpi/network/set"
    /\ last.p.enc = "object"
    /\ last.p.method = "static"
    /\ last.p.static_ip # NoAddr
    /\ last.p.gateway # WrongType
    /\ network_method \in {"networkmanager", "dhcpcd", "interfaces"}
    /\ ~validate_network_config(NetworkRequest(last.p).static_ip,
                                NetworkRequest(last.p).netmask,
                                NetworkRequest(last.p).gateway)

\* C22: on the three backends a static request that fails validation is
\* refused before anything is changed: the writer returns failure with the
\* host as it found it, no file is written, no backup is taken, no command
\* is run, and the response has status error.
C22_InvalidStaticMutatesNothing ==
    InvalidStaticRequest =>
        /\ ~set_static_ip(network_method, last.pre, NetworkRequest(last.p), last.env).ok
        /\ set_static_ip(network_method, last.pre, NetworkRequest(last.p), last.env).host
            = last.pre
        /\ SideEffects(last.trace) = <<>>
        /\ SameConfiguration(host, last.pre)
        /\ last.result = "fail"
        /\ Len(Pubs(last.trace)) = 1
        /\ Pubs(last.trace)[1].f.status = "error"

\* C22 witness: a static request with a gateway outside the network reached
\* the dhcpcd writer on a host whose dhcpcd file exists and already holds a
\* stanza, and every external step would have succeeded.
C22_Witness ==
    /\ InvalidStaticRequest
    /\ network_method = "dhcpcd"
    /\ last.pre.dh.exists
    /\ last.pre.dh.lines # <<>>
    /\ last.p.static_ip = IpA
    /\ last.p.gateway = GwOutside
    /\ last.env = Fine

\* -------------------------------------------------------- dhcpcd stanzas
\* The 'interface x' lines of a dhcpcd file.
InterfaceLines(lines, x) ==
    SelectSeq(lines, LAMBDA l : Strip(l).k = "interface" /\ l.name = x)

\* The lines of the stanzas of interface x in a dhcpcd file: the lines that
\* follow each 'interface x' line up to the next interface line.
RECURSIVE DhcpcdStanzaOf(_, _, _)
DhcpcdStanzaOf(lines, x, inside) ==
    IF lines = <<>> THEN <<>>
    ELSE LET l == Head(lines) IN
         IF Strip(l).k = "interface" THEN DhcpcdStanzaOf(Tail(lines), x, l.name = x)
         ELSE (IF inside THEN <<l>> ELSE <<>>) \o DhcpcdStanzaOf(Tail(lines), x, inside)

\* The lines of keyword k in a stanza, in order.
Keyed(stanza, k) == SelectSeq(stanza, LAMBDA l : l.k = k)

\* The stanzas of x in lines are one stanza that carries request r.
CarriesRequest(lines, x, r) ==
    LET st == DhcpcdStanzaOf(lines, x, FALSE) IN
    /\ Len(InterfaceLines(lines, x)) = 1
    /\ Len(Keyed(st, "static ip_address")) = 1
    /\ Keyed(st, "static ip_address")[1].addr = r.static_ip \o <<SetBitCount(r.netmask)>>
    /\ Len(Keyed(st, "static routers")) = 1
    /\ Keyed(st, "static routers")[1].addr = r.gateway
    /\ Len(Keyed(st, "static domain_name_servers")) = (IF r.dns = "" THEN 0 ELSE 1)
    /\ r.dns # "" => Keyed(st, "static domain_name_servers")[1].arg = r.dns

\* C23: after any sequence of dhcpcd static and dhcp writes, every interface
\* that was written has exactly one stanza in the file, with the address,
\* router and DNS of its last write, if that write was static, and no stanza
\* if it was dhcp.
C23_OneStanzaPerWrittenInterface ==
    (network_method = "dhcpcd" /\ call.fn \in {"set_static_ip", "set_dynamic_ip"}) =>
        \A x \in DOMAIN call.out.latest :
            IF call.out.latest[x].method = "static"
            THEN CarriesRequest(host.dh.lines, x, call.out.latest[x])
            ELSE InterfaceLines(host.dh.lines, x) = <<>>

\* The lines of a dhcpcd file that are not part of a stanza of interface x:
\* everything but the 'interface x' lines and the lines that follow each of
\* them up to the next interface line.
RECURSIVE OutsideStanzaOf(_, _, _)
OutsideStanzaOf(lines, x, inside) ==
    IF lines = <<>> THEN <<>>
    ELSE LET l == Head(lines) IN
         IF Strip(l).k = "interface"
         THEN (IF l.name = x THEN <<>> ELSE <<l>>)
              \o OutsideStanzaOf(Tail(lines), x, l.name = x)
         ELSE (IF inside THEN <<>> ELSE <<l>>) \o OutsideStanzaOf(Tail(lines), x, inside)

\* C24: a dhcpcd write that rewrote the file removed the target interface's
\* own stanza and nothing else: the file is the lines that were outside the
\* target's stanza, unchanged and in order, followed by the new stanza of a
\* static write.
C24_OnlyTargetStanzaRemoved ==
    (/\ network_method = "dhcpcd"
     /\ call.fn \in {"set_static_ip", "set_dynamic_ip"}
     /\ Rewrote(call.out.trace)) =>
        host.dh.lines
            = OutsideStanzaOf(call.arg.host.dh.lines, call.arg.req.interface, FALSE)
              \o (IF call.arg.req.method = "static" THEN DhcpcdStanza(call.arg.req)
                  ELSE <<>>)

\* The last message was a static network set on the dhcpcd backend that
\* rewrote the file and whose restart of the service failed.
DhcpcdRestartFailed ==
    /\ handled > 0
    /\ network_method = "dhcpcd"
    /\ last.topic = "rpi/network/set"
    /\ last.p.enc = "object"
    /\ last.p.method = "static"
    /\ Rewrote(last.trace)
    /\ last.env.restart # "ok"

\* C25: on the dhcpcd backend, when the restart after the rewrite fails, the
\* operation fails and the response has status error, while the file holds
\* the newly written stanza: it is written once and not put back.
C25_RestartFailureKeepsNewFile ==
    DhcpcdRestartFailed =>
        /\ last.result = "fail"
        /\ Len(Pubs(last.trace)) = 1
        /\ Pubs(last.trace)[1].name = "rpi/network/response"
        /\ Pubs(last.trace)[1].f.status = "error"
        /\ SideEffects(last.trace) = <<Wrote("dhcpcd"), Cmd("systemctl restart dhcpcd")>>
        /\ CarriesRequest(host.dh.lines, NetworkRequest(last.p).interface,
                          NetworkRequest(last.p))

\* C25 witness: the restart failed after a static write for eth0 on a file
\* that held a different stanza for eth0 before.
C25_Witness ==
    /\ DhcpcdRestartFailed
    /\ last.env.restart = "fail"
    /\ NetworkRequest(last.p).interface = Eth0
    /\ InterfaceLines(last.pre.dh.lines, Eth0) # <<>>
    /\ ~CarriesRequest(last.pre.dh.lines, Eth0, NetworkRequest(last.p))
    /\ host.dh # last.pre.dh

\* The last message was a network set on the interfaces backend that reached
\* change_ip_configuration while the interfaces file was not writable.
InterfacesNotWritable ==
    /\ handled > 0
    /\ network_method = "interfaces"
    /\ last.topic = "rpi/network/set"
    /\ last.p.enc = "object"
    /\ last.p.method \in {"static", "dhcp"}
    /\ last.result # "none"
    /\ last.pre.ifc.exists
    /\ last.p.method = "static" =>
            validate_network_config(NetworkRequest(last.p).static_ip,
                                    NetworkRequest(last.p).netmask,
                                    NetworkRequest(last.p).gateway)
    /\ ~last.env.writable

\* C26: on the interfaces backend a write to a file that is not writable
\* fails with the permission message and has no effect: no backup is taken,
\* the file is not modified, and no restart, ifdown or ifup is run.
C26_NotWritableNoEffect ==
    InterfacesNotWritable =>
        /\ last.result = "fail"
        /\ Len(Pubs(last.trace)) = 1
        /\ Pubs(last.trace)[1].f.status = "error"
        /\ Pubs(last.trace)[1].f.err = "No write permission"
        /\ SideEffects(last.trace) = <<>>
        /\ SameConfiguration(host, last.pre)

\* C26 witness: a valid static request for an interface that has a stanza in
\* the file met a file that is not writable, while a restart would have
\* worked.
C26_Witness ==
    /\ InterfacesNotWritable
    /\ last.p.method = "static"
    /\ last.env.restart = "ok"
    /\ StanzaOf(last.pre.ifc.lines, NetworkRequest(last.p).interface, FALSE) # <<>>

\* ------------------------------------------------------- WiFi operations
\* The last message made its handler call the WiFi operation of topic with
\* the payload's ssid.
WifiOperationRan(topic) ==
    /\ handled > 0
    /\ last.topic = topic
    /\ last.p.enc = "object"
    /\ last.p.ssid # ""

\* The positions of command name among the commands of the last message.
Issued(name) ==
    {i \in DOMAIN SideEffects(last.trace) : SideEffects(last.trace)[i] = Cmd(name)}

\* The disconnect of the last message failed for another reason than the
\* device not being connected.
DisconnectRefused ==
    \/ ~last.env.tool
    \/ WifiActive(last.pre.nm) = 0 /\ ~last.env.notconn

\* C27: every execution of connect_wifi issues the disconnect of wlan0
\* first; when that disconnect succeeds or answers "not connected" the
\* connect command follows it, and when it fails for another reason
\* connect_wifi returns failure and no connect command is issued.
C27_DisconnectBeforeConnect ==
    WifiOperationRan("rpi/wifi/connect") =>
        /\ 1 \in Issued("nmcli device disconnect wlan0")
        /\ \A i \in Issued("nmcli dev wifi connect") : i > 1
        /\ IF DisconnectRefused
           THEN /\ last.result = "fail"
                /\ Issued("nmcli dev wifi connect") = {}
                /\ SameConfiguration(host, last.pre)
           ELSE Issued("nmcli dev wifi connect") = {2}

\* C27 witness: a connect request on an idle device, whose disconnect was
\* answered "not connected", went on to connect.
C27_Witness ==
    /\ WifiOperationRan("rpi/wifi/connect")
    /\ WifiActive(last.pre.nm) = 0
    /\ last.env.tool /\ last.env.notconn
    /\ last.result = "ok"
    /\ WifiActive(host.nm) # 0

\* The connect command of the last message was issued and succeeded.
ConnectSucceeded ==
    /\ WifiOperationRan("rpi/wifi/connect")
    /\ ~DisconnectRefused
    /\ last.env.connect

\* C28: once the connect command has succeeded, connect_wifi returns
\* success whatever the address probe yields: the address when the probe
\* yields one, "IP not found" when it fails or yields none; the response on
\* the connect response topic has status success.
C28_ProbeNeverFailsConnect ==
    ConnectSucceeded =>
        /\ connect_wifi(last.pre, last.p.ssid, last.env).ok
        /\ connect_wifi(last.pre, last.p.ssid, last.env).msg
            = (IF last.env.probe = "ip" THEN "ip" ELSE "IP not found")
        /\ last.result = "ok"
        /\ Len(Pubs(last.trace)) = 1
        /\ Pubs(last.trace)[1].name = "rpi/wifi/connect_response"
        /\ Pubs(last.trace)[1].f.status = "success"

\* C28 witness: the connect succeeded and the probe command failed.
C28_Witness ==
    /\ ConnectSucceeded
    /\ last.env.probe = "fail"
    /\ 3 \in Issued("nmcli device show wlan0")
    /\ last.result = "ok"

\* The saved connections named ssid, by position in the listing.
Matching(conns, ssid) == {n \in DOMAIN conns : conns[n].name = ssid}

\* C29: delete_wifi lists the connections first; when the listing fails or
\* no listed connection has the SSID as its name it returns failure and
\* issues no delete; when one matches it issues exactly one delete, after
\* the listing, and what a successful delete removes is the first matching
\* entry.
C29_DeleteResolvesFirstMatch ==
    WifiOperationRan("rpi/wifi/delete") =>
        LET hit == Matching(last.pre.nm, last.p.ssid) IN
        /\ 1 \in Issued("nmcli connection show")
        /\ IF ~last.env.list \/ hit = {}
           THEN /\ last.result = "fail"
                /\ Issued("nmcli connection delete") = {}
                /\ SameConfiguration(host, last.pre)
           ELSE /\ Issued("nmcli connection delete") = {2}
                /\ last.env.delete =>
                    \E k \in hit :
                        /\ \A m \in hit : k <= m
                        /\ host.nm = SubSeq(last.pre.nm, 1, k - 1)
                                     \o SubSeq(last.pre.nm, k + 1, Len(last.pre.nm))

\* C29 witness: two saved connections had the SSID as their name, and the
\* delete succeeded.
C29_Witness ==
    /\ WifiOperationRan("rpi/wifi/delete")
    /\ Cardinality(Matching(last.pre.nm, last.p.ssid)) = 2
    /\ last.pre.nm[1] # last.pre.nm[2]
    /\ last.result = "ok"
    /\ Len(host.nm) = 1

\* ----------------------------------------------------- restart on change
\* The last message was a rpi/config/set that carries a 'config'.
SetConfigRan ==
    /\ handled > 0
    /\ last.topic = "rpi/config/set"
    /\ last.p.enc = "object"
    /\ last.p.has_config

\* The last message wrote the config file.
ConfigSaved == \E i \in DOMAIN last.trace : last.trace[i] = Wrote("config")

\* The mqtt or the thermal section of the new config differs from that of
\* the config that was in memory when the message arrived (a config that
\* is no object has neither section).
SectionsDiffer ==
    \/ last.prest.mem.mqtt # last.p.cfg.mqtt
    \/ last.prest.mem.thermal # last.p.cfg.thermal

\* C30: a rpi/config/set request is answered with restart_required, and the
\* publishing service is restarted, exactly when the config was saved and
\* its mqtt or thermal section differs from that of the config in memory
\* before; when the save fails nothing is restarted and the response has
\* status error.
C30_RestartIffSavedAndChanged ==
    SetConfigRan =>
        /\ Len(Pubs(last.trace)) = 1
        /\ Pubs(last.trace)[1].f.rr <=> (ConfigSaved /\ SectionsDiffer)
        /\ Issued("systemctl restart thermal-mqtt") # {} <=> (ConfigSaved /\ SectionsDiffer)
        /\ Cardinality(Issued("systemctl restart thermal-mqtt")) <= 1
        /\ last.env.save # "ok" =>
                /\ ~ConfigSaved
                /\ Issued("systemctl restart thermal-mqtt") = {}
                /\ Pubs(last.trace)[1].f.status = "error"

\* ---------------------------------------------------------------- reboot
\* The positions of the reboot command in the trace of the last message.
RebootAt == {i \in DOMAIN last.trace : last.trace[i] = Cmd("sudo reboot")}

\* C31: a reboot is issued only by a rpi/network/set request that asked
\* for it and whose network change reported success, and only after the
\* success response of that request was published; a network set that
\* failed or was rejected issues none.
C31_RebootOnlyAfterSuccess ==
    /\ \A i \in RebootAt :
            /\ last.topic = "rpi/network/set"
            /\ last.p.reboot
            /\ last.result = "ok"
            /\ \E j \in 1..(i - 1) :
                    /\ last.trace[j].t = "pub"
                    /\ last.trace[j].name = "rpi/network/response"
                    /\ last.trace[j].f.status = "success"
    /\ (last.topic = "rpi/network/set" /\ last.result # "ok") => RebootAt = {}

\* C31 witness: a request with the reboot flag changed the configuration
\* and the reboot was issued as the last step.
C31_Witness ==
    /\ handled > 0
    /\ last.topic = "rpi/network/set"
    /\ last.p.reboot
    /\ ~SameConfiguration(host, last.pre)
    /\ RebootAt = {Len(last.trace)}

\* ----------------------------------------------------------- read methods
\* C32: every entry of a successful read_current_ip_config, on the three
\* backends, has a method that is static or dhcp.
C32_MethodStaticOrDhcp ==
    (/\ handled > 0
     /\ last.topic = "rpi/network/get"
     /\ network_method \in {"networkmanager", "dhcpcd", "interfaces"}
     /\ read_current_ip_config(network_method, last.pre, last.env).ok) =>
        \A n \in DOMAIN read_current_ip_config(network_method, last.pre, last.env).ifs :
            read_current_ip_config(network_method, last.pre, last.env).ifs[n].method
                \in {"static", "dhcp"}

\* --------------------------------------------------------- backups kept
\* C33: a backup copy, once written, is never deleted or overwritten by a
\* later operation: every copy of a network file and of the config file
\* that exists before a step exists unchanged after it, also when two
\* rewrites of the same file fall into the same second.
C33_BackupsNeverOverwritten ==
    [][host.bk \subseteq host'.bk /\ store.cbk \subseteq store'.cbk]_vars

\* ------------------------------------------------ config kept on error
\* The last message was a rpi/config/set answered with status error.
SetConfigFailed ==
    /\ handled > 0
    /\ last.topic = "rpi/config/set"
    /\ Pubs(last.trace) # <<>>
    /\ Pubs(last.trace)[1].f.status = "error"

\* The last message was a rpi/config/set with an object as 'config', while
\* the config file could be written.
ValidSetConfig ==
    /\ handled > 0
    /\ last.topic = "rpi/config/set"
    /\ last.p.enc = "object"
    /\ last.p.has_config
    /\ last.p.cfg.dict
    /\ last.env.save = "ok"

\* C34: a rpi/config/set request that is answered with an error leaves the
\* config in memory and the config file as they were before it, and a valid
\* request is answered with success whatever requests failed before it.
C34_FailedSetLeavesConfig ==
    /\ SetConfigFailed =>
            /\ store.mem = last.prest.mem
            /\ store.disk = last.prest.disk
    /\ ValidSetConfig =>
            /\ last.result = "ok"
            /\ Pubs(last.trace)[1].f.status = "success"

\* ------------------------------------------------ dhcpcd writer repeated
\* C35: the dhcpcd static writer is idempotent on the file: when a static
\* request has rewritten the dhcpcd file and the same request (interface,
\* ip, netmask, gateway, dns) is applied again right after it, the second
\* write leaves the file with the content the first produced, so that
\* repeated writes do not make the file grow.
C35_StaticWriteIdempotent ==
    [][(/\ network_method = "dhcpcd"
        /\ call.fn = "set_static_ip"
        /\ Rewrote(call.out.trace)
        /\ call'.fn = "set_static_ip"
        /\ call'.arg.req = call.arg.req
        /\ Rewrote(call'.out.trace))
            => host'.dh.lines = host.dh.lines]_vars

\* ------------------------------------------------- failed connect
\* C36: when connect_wifi returns failure, the WiFi connection that was
\* active before the call is still active afterwards: a failed attempt to
\* join a network does not leave wlan0 disconnected from the network it was
\* on.
C36_FailedConnectKeepsActive ==
    (/\ WifiOperationRan("rpi/wifi/connect")
     /\ ~connect_wifi(last.pre, last.p.ssid, last.env).ok) =>
        \A i \in DOMAIN last.pre.nm :
            (last.pre.nm[i].type = "802-11-wireless" /\ last.pre.nm[i].active) =>
                /\ i \in DOMAIN host.nm
                /\ host.nm[i] = last.pre.nm[i]

\* ------------------------------------------------------ scan status
\* C37: the response to rpi/wifi/scan has status success only if the scan
\* command succeeded; when the scan command fails the response has status
\* error rather than success with an empty list of networks.
C37_ScanSuccessOnlyIfScanned ==
    (handled > 0 /\ last.topic = "rpi/wifi/scan") =>
        \A i \in DOMAIN Pubs(last.trace) :
            Pubs(last.trace)[i].name = "rpi/wifi/scan_response" =>
                (Pubs(last.trace)[i].f.status = "success" <=> last.env.scan)

\* ------------------------------------------------ delete by WiFi type
\* The saved profiles of conns that are not of WiFi type, in their order.
IsOtherThanWifi(c) == c.type # "802-11-wireless"
OtherThanWifi(conns) == SelectSeq(conns, IsOtherThanWifi)

\* C38: delete_wifi only ever deletes a saved profile of WiFi type: every
\* saved profile of another type (an ethernet profile, say) is still saved
\* after a rpi/wifi/delete request, also when its name equals the requested
\* SSID.
C38_DeleteOnlyWifiProfiles ==
    WifiOperationRan("rpi/wifi/delete") =>
        OtherThanWifi(host.nm) = OtherThanWifi(last.pre.nm)

\* ------------------------------------------------- contiguous netmasks
\* The octets of a netmask: a run of set bits from the most significant bit.
PrefixOctets == {0, 128, 192, 224, 240, 248, 252, 254, 255}

\* A genuine netmask: four octets whose set bits are contiguous from the
\* most significant bit of the mask.
Contiguous(m) ==
    /\ Len(m) = 4
    /\ \A i \in 1..4 : m[i] \in PrefixOctets
    /\ \A i \in 1..3 : m[i] # 255 => m[i + 1] = 0

\* C39: _netmask_to_cidr returns only for masks whose set bits are
\* contiguous from the most significant bit, a mask such as 255.0.255.0 is
\* rejected, and _validate_network_config accepts no configuration whose
\* mask is not contiguous.
C39_OnlyContiguousMasks ==
    /\ (call.fn = "_netmask_to_cidr" /\ ~call.out.raised) =>
            Contiguous(call.arg.netmask)
    /\ (call.fn = "_validate_network_config" /\ call.out) =>
            Contiguous(call.arg.netmask)

\* ------------------------------------------------ capture error counter
\* C40: in the capture loop the counter of consecutive errors is within
\* 0..10 at the end of every iteration; an iteration that captures a frame
\* with statistics leaves it at 0; the sensor is restarted in exactly the
\* iterations that fail with the counter at 9, that is when it reaches 10;
\* after a successful restart the counter is 0 and after a failed one it is
\* 5, and the restart attempt that follows a failed one without a captured
\* frame in between comes with the fifth further error in a row.
C40_ErrorCounter ==
    /\ [](call.out.loop.error_count \in 0..10
          /\ (call.out.loop.captured => call.out.loop.error_count = 0)
          /\ (call.out.loop.restart # "none"
                <=> (call.out.turns > 0 /\ ~call.out.loop.captured /\ call.out.prev = 9))
          /\ (call.out.loop.restart = "ok" => call.out.loop.error_count = 0)
          /\ (call.out.loop.restart = "fail" => call.out.loop.error_count = 5)
          /\ (call.out.turns > 0 /\ ~call.out.loop.captured /\ call.out.loop.restart = "none"
                => call.out.loop.error_count = call.out.prev + 1))
    /\ [][call'.out.loop.restart # "none" =>
            call.out.since + 1 = (IF call.out.prior = "fail" THEN 5 ELSE 10)]_vars

C40_Witness ==
    /\ call.fn = "start"
    /\ call.out.restarts = 2
    /\ call.out.loop.restart = "ok"
    /\ call.out.loop.error_count = 0
    /\ call.out.turns = 15

====
